---- MODULE Spec2Model ----
(***************************************************************************)
(* The deterministic SKU matching engine (DeterministicMappingService) and *)
(* the collaborators it reads: ConfigService and the SKU catalog.          *)
(*                                                                         *)
(* Numbers are exact rationals [n, d] in lowest terms (d > 0); a JavaScript *)
(* string is a sequence of one-character strings; an optional value is the *)
(* empty sequence (undefined) or a one-element sequence holding the value. *)
(***************************************************************************)
EXTENDS Integers, Sequences, FiniteSets, TLC

\* ------------------------------------------------------------------------
\* Numbers
\* ------------------------------------------------------------------------
Abs(x) == IF x < 0 THEN -x ELSE x

RECURSIVE GCD(_, _)
GCD(a, b) == IF b = 0 THEN a ELSE GCD(b, a % b)

Rat(n, d) ==
  LET g == GCD(Abs(n), d)
  IN  [n |-> n \div g, d |-> d \div g]

Zero == Rat(0, 1)
One == Rat(1, 1)

RAdd(a, b) ==
  LET l == (a.d \div GCD(a.d, b.d)) * b.d
  IN  Rat(a.n * (l \div a.d) + b.n * (l \div b.d), l)
RNeg(a) == [n |-> -a.n, d |-> a.d]
RSub(a, b) == RAdd(a, RNeg(b))
RMul(a, b) ==
  LET x == Rat(a.n, b.d)
      y == Rat(b.n, a.d)
  IN  [n |-> x.n * y.n, d |-> x.d * y.d]
RLt(a, b) == a.n * b.d < b.n * a.d
RLe(a, b) == a.n * b.d <= b.n * a.d
RMin(a, b) == IF RLt(b, a) THEN b ELSE a
RMax(a, b) == IF RLt(a, b) THEN b ELSE a
RAbs(a) == [n |-> Abs(a.n), d |-> a.d]

\* ------------------------------------------------------------------------
\* Optional values and JavaScript truthiness
\* ------------------------------------------------------------------------
Undefined == <<>>
Some(v) == <<v>>
IsDefined(o) == o # Undefined
Val(o) == o[1]
\* a number | undefined used as a condition: undefined and 0 are falsy
TruthyNum(o) == IsDefined(o) /\ Val(o).n # 0
\* a string | undefined used as a condition: undefined and '' are falsy
TruthyStrCode(o) == IsDefined(o) /\ Val(o) # ""
TruthyStr(o) == IsDefined(o) /\ Val(o) # <<>>

\* ------------------------------------------------------------------------
\* Strings
\* ------------------------------------------------------------------------
UpperChars == <<"A","B","C","D","E","F","G","H","I","J","K","L","M","N","O","P","Q","R","S","T","U","V","W","X","Y","Z">>
LowerChars == <<"a","b","c","d","e","f","g","h","i","j","k","l","m","n","o","p","q","r","s","t","u","v","w","x","y","z">>
Digits == <<"0","1","2","3","4","5","6","7","8","9">>
WhiteSpace == {" "}

IsDigit(c) == \E i \in 1..10 : Digits[i] = c
DigitVal(c) == (CHOOSE i \in 1..10 : Digits[i] = c) - 1
LowerChar(c) ==
  IF \E i \in 1..26 : UpperChars[i] = c
  THEN LowerChars[CHOOSE i \in 1..26 : UpperChars[i] = c]
  ELSE c
UpperChar(c) ==
  IF \E i \in 1..26 : LowerChars[i] = c
  THEN UpperChars[CHOOSE i \in 1..26 : LowerChars[i] = c]
  ELSE c
RECURSIVE toLowerCase(_)
toLowerCase(s) ==
  IF s = <<>> THEN <<>> ELSE <<LowerChar(Head(s))>> \o toLowerCase(Tail(s))
RECURSIVE toUpperCase(_)
toUpperCase(s) ==
  IF s = <<>> THEN <<>> ELSE <<UpperChar(Head(s))>> \o toUpperCase(Tail(s))
startsWithAt(s, i, prefix) ==
  i + Len(prefix) - 1 <= Len(s) /\ SubSeq(s, i, i + Len(prefix) - 1) = prefix

RECURSIVE trimStart(_)
trimStart(s) ==
  IF s # <<>> /\ Head(s) \in WhiteSpace THEN trimStart(Tail(s)) ELSE s
RECURSIVE trimEnd(_)
trimEnd(s) ==
  IF s # <<>> /\ s[Len(s)] \in WhiteSpace
  THEN trimEnd(SubSeq(s, 1, Len(s) - 1))
  ELSE s
trim(s) == trimEnd(trimStart(s))

\* String.prototype.includes
includes(s, sub) ==
  \E i \in 0..(Len(s) - Len(sub)) : SubSeq(s, i + 1, i + Len(sub)) = sub

\* s.split(/\s+/): the pieces between maximal runs of white space; a run at
\* either end leaves an empty piece there
RECURSIVE splitWs(_, _, _, _)
splitWs(s, i, cur, acc) ==
  IF i > Len(s) THEN Append(acc, cur)
  ELSE IF s[i] \in WhiteSpace
       THEN IF i > 1 /\ s[i - 1] \in WhiteSpace
            THEN splitWs(s, i + 1, cur, acc)
            ELSE splitWs(s, i + 1, <<>>, Append(acc, cur))
       ELSE splitWs(s, i + 1, Append(cur, s[i]), acc)
split(s) == splitWs(s, 1, <<>>, <<>>)

\* s.replace(/[^a-z0-9]/g, '')
RECURSIVE stripNonAlnum(_)
stripNonAlnum(s) ==
  IF s = <<>> THEN <<>>
  ELSE IF IsDigit(Head(s)) \/ (\E i \in 1..26 : LowerChars[i] = Head(s))
       THEN <<Head(s)>> \o stripNonAlnum(Tail(s))
       ELSE stripNonAlnum(Tail(s))

\* array.join('; ')
RECURSIVE join(_)
join(parts) ==
  IF parts = <<>> THEN <<>>
  ELSE IF Len(parts) = 1 THEN parts[1]
       ELSE parts[1] \o <<";"," ">> \o join(Tail(parts))

\* fast-levenshtein get(a, b): the edit distance, one row of the table at a
\* time; table[i + 1][j + 1] is the distance between the first i characters
\* of a and the first j characters of b
Min3(x, y, z) ==
  IF x <= y THEN (IF x <= z THEN x ELSE z) ELSE (IF y <= z THEN y ELSE z)
RECURSIVE levRow(_, _, _, _)
levRow(prev, ch, b, cur) ==
  LET j == Len(cur)
  IN  IF j > Len(b) THEN cur
      ELSE levRow(prev, ch, b,
                  Append(cur, Min3(prev[j + 1] + 1, cur[j] + 1,
                                   prev[j] + (IF ch = b[j] THEN 0 ELSE 1))))
RECURSIVE levRows(_, _, _)
levRows(a, b, table) ==
  LET i == Len(table)
  IN  IF i > Len(a) THEN table[i][Len(b) + 1]
      ELSE levRows(a, b,
                   Append(table, levRow(table[i], a[i], b, <<table[i][1] + 1>>)))
levenshtein(a, b) == levRows(a, b, << [j \in 1..(Len(b) + 1) |-> j - 1] >>)

\* ------------------------------------------------------------------------
\* Number syntax
\* ------------------------------------------------------------------------
RECURSIVE Pow10(_)
Pow10(k) == IF k = 0 THEN 1 ELSE 10 * Pow10(k - 1)
RECURSIVE natOf(_)
natOf(digits) ==
  IF digits = <<>> THEN 0
  ELSE natOf(SubSeq(digits, 1, Len(digits) - 1)) * 10 + DigitVal(digits[Len(digits)])
\* the last index of the run of digits that starts at i (i - 1 if there is none)
RECURSIVE digitsEnd(_, _)
digitsEnd(s, i) ==
  IF i <= Len(s) /\ IsDigit(s[i]) THEN digitsEnd(s, i + 1) ELSE i - 1
RECURSIVE skipWs(_, _)
skipWs(s, i) ==
  IF i <= Len(s) /\ s[i] \in WhiteSpace THEN skipWs(s, i + 1) ELSE i
\* the end of \d+(?:\.\d+)? matched at i, where s[i] is a digit
decimalEnd(s, i) ==
  LET e == digitsEnd(s, i)
  IN  IF e + 2 <= Len(s) /\ s[e + 1] = "." /\ IsDigit(s[e + 2])
      THEN digitsEnd(s, e + 2)
      ELSE e
\* the value of a string of the form \d+(?:\.\d+)?
decimalValue(t) ==
  LET e == digitsEnd(t, 1)
      frac == SubSeq(t, e + 2, Len(t))
  IN  Rat(natOf(SubSeq(t, 1, e)) * Pow10(Len(frac)) + natOf(frac), Pow10(Len(frac)))
\* parseFloat on an optional sign and a decimal literal after leading white
\* space; anything else, exponents included, is NaN (Undefined here)
parseFloat(str) ==
  LET i == skipWs(str, 1)
      neg == i <= Len(str) /\ str[i] = "-"
      k == IF i <= Len(str) /\ str[i] \in {"-", "+"} THEN i + 1 ELSE i
  IN  IF k <= Len(str) /\ IsDigit(str[k])
      THEN LET v == decimalValue(SubSeq(str, k, decimalEnd(str, k)))
           IN  Some(IF neg THEN RNeg(v) ELSE v)
      ELSE Undefined

\* ------------------------------------------------------------------------
\* DeterministicMappingService: the normalizer
\* ------------------------------------------------------------------------
InchMm == Rat(254, 10)

\* sizeToken.match(/(\d+(?:\.\d+)?)\s*(mm|inch|in|"|')?/i), then the unit switch
extractSizeMm(sizeToken) ==
  IF ~ \E p \in 1..Len(sizeToken) : IsDigit(sizeToken[p]) THEN Undefined
  ELSE LET p == CHOOSE q \in 1..Len(sizeToken) :
                  /\ IsDigit(sizeToken[q])
                  /\ \A r \in 1..(q - 1) : ~ IsDigit(sizeToken[r])
           e == decimalEnd(sizeToken, p)
           value == decimalValue(SubSeq(sizeToken, p, e))
           u == skipWs(sizeToken, e + 1)
           rest == toLowerCase(sizeToken)
           unit == IF startsWithAt(rest, u, <<"m","m">>) THEN "mm"
                   ELSE IF startsWithAt(rest, u, <<"i","n","c","h">>) THEN "inch"
                   ELSE IF startsWithAt(rest, u, <<"i","n">>) THEN "in"
                   ELSE IF startsWithAt(rest, u, <<"\"">>) THEN "dquote"
                   ELSE IF startsWithAt(rest, u, <<"'">>) THEN "quote"
                   ELSE "mm"
       IN  IF unit \in {"inch", "in", "dquote", "quote"}
           THEN Some(RMul(value, InchMm))
           ELSE Some(value)

normalizeMaterial(material) ==
  LET lower == trim(toLowerCase(material))
  IN  IF \/ includes(lower, <<"f","r","p","p">>)
         \/ includes(lower, <<"f","r","-","p","p">>)
         \/ (includes(lower, <<"f","r">>) /\ includes(lower, <<"p","p">>))
      THEN <<"F","R","P","P">>
      ELSE IF includes(lower, <<"p","v","c">>) THEN <<"P","V","C">>
      ELSE IF includes(lower, <<"n","y","l","o","n">>) THEN <<"N","Y","L","O","N">>
      ELSE IF includes(lower, <<"h","d","p","e">>) THEN <<"H","D","P","E">>
      ELSE IF includes(lower, <<"l","d","p","e">>) THEN <<"L","D","P","E">>
      ELSE IF \/ includes(lower, <<"m","s">>)
              \/ includes(lower, <<"g","i">>)
              \/ includes(lower, <<"g","a","l","v","a","n","i","z","e","d">>) THEN <<"M","S">>
      ELSE IF includes(lower, <<"p","p">>) \/ includes(lower, <<"p","o","l","y","p","r","o","p","y","l","e","n","e">>) THEN <<"P","P">>
      ELSE IF includes(lower, <<"f","r">>) /\ ~ includes(lower, <<"p","p">>) THEN <<"F","R">>
      ELSE toUpperCase(material)

normalizeGauge(gauge) ==
  LET lower == trim(toLowerCase(gauge))
  IN  IF lower \in {<<"l","i","g","h","t">>, <<"l">>} THEN <<"L">>
      ELSE IF lower \in {<<"m","e","d","i","u","m">>, <<"m","e","d">>, <<"m">>} THEN <<"M">>
      ELSE IF lower \in {<<"h","e","a","v","y">>, <<"h">>} THEN <<"H">>
      ELSE toUpperCase(gauge)

normalizeColor(color) == toLowerCase(color)

getProductFamily(description) ==
  LET desc == toLowerCase(description)
  IN  IF includes(desc, <<"c","o","r","r","u","g","a","t","e","d">>) \/ includes(desc, <<"f","l","e","x","i","b","l","e">>) \/ includes(desc, <<"c","f","p">>)
      THEN "Corrugated Flexible Pipe"
      ELSE IF includes(desc, <<"p","v","c">>) /\ includes(desc, <<"c","o","n","d","u","i","t">>)
      THEN "Rigid PVC Conduit"
      ELSE IF includes(desc, <<"f","a","n">>) /\ includes(desc, <<"b","o","x">>)
      THEN "GI Fan Box"
      ELSE IF includes(desc, <<"m","o","d","u","l","a","r">>) \/ includes(desc, <<"s","w","i","t","c","h">>) \/ includes(desc, <<"m","s","b">>)
      THEN "MS Box"
      ELSE IF includes(desc, <<"c","a","b","l","e">>) /\ includes(desc, <<"g","l","a","n","d">>)
      THEN "Cable Gland"
      ELSE IF includes(desc, <<"c","a","b","l","e">>) /\ (includes(desc, <<"t","i","e">>) \/ includes(desc, <<"t","i","e","s">>))
      THEN "Cable Tie"
      ELSE IF includes(desc, <<"j","u","n","c","t","i","o","n">>) /\ includes(desc, <<"b","o","x">>)
      THEN "GI Junction Box"
      ELSE IF includes(desc, <<"c","l","a","m","p">>) \/ includes(desc, <<"s","a","d","d","l","e">>)
      THEN "Accessories"
      ELSE "Unknown"

\* A token that is undefined or '' is skipped; the other tokens overwrite the
\* normalized field, whatever the parser had put there.  A line without a
\* normalized object is a line whose four normalized fields are undefined.
normalizeLineItem(line) ==
  LET t == line.raw_tokens
      n == line.normalized
  IN  [line EXCEPT !.normalized =
        [size_mm  |-> IF TruthyStr(t.size_token)
                      THEN extractSizeMm(Val(t.size_token)) ELSE n.size_mm,
         material |-> IF TruthyStr(t.material_token)
                      THEN Some(normalizeMaterial(Val(t.material_token))) ELSE n.material,
         color    |-> IF TruthyStr(t.color_token)
                      THEN Some(normalizeColor(Val(t.color_token))) ELSE n.color,
         gauge    |-> IF TruthyStr(t.gauge_token)
                      THEN Some(normalizeGauge(Val(t.gauge_token))) ELSE n.gauge]]

\* ------------------------------------------------------------------------
\* DeterministicMappingService: the hard-constraint filter
\* ------------------------------------------------------------------------
isMaterialCompatible_noAlternate(inputMaterial, sku) ==
  LET input == toUpperCase(inputMaterial)
      skuMaterial == toUpperCase(sku.material)
  IN  \/ input = skuMaterial
      \/ /\ sku.productFamily = "Corrugated Flexible Pipe"
         /\ input \in {<<"F","R","P","P">>, <<"F","R">>}
         /\ (skuMaterial = <<"P","P">> \/ sku.altMaterial = Some(<<"F","R","P","P">>))
isMaterialCompatible(inputMaterial, sku) ==
  LET input == toUpperCase(inputMaterial)
      skuMaterial == toUpperCase(sku.material)
      skuAltMaterial == IF IsDefined(sku.altMaterial)
                        THEN Some(toUpperCase(Val(sku.altMaterial)))
                        ELSE Undefined
  IN  IF input = skuMaterial \/ Some(input) = skuAltMaterial THEN TRUE
      ELSE IF sku.productFamily = "Corrugated Flexible Pipe"
      THEN \/ input = <<"F","R","P","P">> /\ (skuMaterial = <<"P","P">> \/ skuAltMaterial = Some(<<"F","R","P","P">>))
           \/ input = <<"F","R">> /\ (skuMaterial = <<"P","P">> \/ skuAltMaterial = Some(<<"F","R","P","P">>))
           \/ input = <<"P","P">> /\ skuMaterial = <<"P","P">>
      ELSE FALSE

passesHardConstraints_noSizeCheck(cfg, line, sku, inputFamily) ==
  LET inputMaterial == line.normalized.material
  IN  /\ (inputFamily = "Unknown" \/ sku.productFamily = inputFamily)
      /\ (TruthyStr(inputMaterial) /\ sku.material # <<>>
            => isMaterialCompatible(Val(inputMaterial), sku))
passesHardConstraints(cfg, line, sku, inputFamily) ==
  LET inputSize == line.normalized.size_mm
      inputMaterial == line.normalized.material
      tolerance == IF TruthyNum(sku.toleranceMm)
                   THEN Val(sku.toleranceMm) ELSE cfg.size_tolerance_mm
  IN  IF inputFamily # "Unknown" /\ sku.productFamily # inputFamily THEN FALSE
      ELSE IF /\ TruthyNum(inputSize) /\ TruthyNum(sku.sizeOdMm)
              /\ RLt(tolerance, RAbs(RSub(Val(inputSize), Val(sku.sizeOdMm))))
      THEN FALSE
      ELSE IF /\ TruthyStr(inputMaterial) /\ sku.material # <<>>
              /\ ~ isMaterialCompatible(Val(inputMaterial), sku)
      THEN FALSE
      ELSE TRUE

\* ------------------------------------------------------------------------
\* DeterministicMappingService: the candidate scorer
\* ------------------------------------------------------------------------
calculateFuzzyScore(input, sku) ==
  LET inputLower == toLowerCase(input)
      skuDescription == toLowerCase(sku.description)
      distance == levenshtein(inputLower, skuDescription)
      maxLength == IF Len(inputLower) >= Len(skuDescription)
                   THEN Len(inputLower) ELSE Len(skuDescription)
  IN  IF maxLength > 0 THEN RSub(One, Rat(distance, maxLength)) ELSE Zero

calculateSizeScore_skuTolerance(cfg, line, sku) ==
  LET inputSize == line.normalized.size_mm
      skuSize == sku.sizeOdMm
      t == IF TruthyNum(sku.toleranceMm) THEN Val(sku.toleranceMm)
           ELSE cfg.size_tolerance_mm
  IN  IF ~ TruthyNum(inputSize) \/ ~ TruthyNum(skuSize) THEN Zero
      ELSE LET sizeDiff == RAbs(RSub(Val(inputSize), Val(skuSize)))
           IN  IF RLe(sizeDiff, t) THEN One
               ELSE IF RLe(sizeDiff, RMul(t, Rat(2, 1))) THEN Rat(7, 10)
               ELSE IF RLe(sizeDiff, RMul(t, Rat(4, 1))) THEN Rat(3, 10)
               ELSE Zero
calculateSizeScore(cfg, line, sku) ==
  LET inputSize == line.normalized.size_mm
      skuSize == sku.sizeOdMm
  IN  IF ~ TruthyNum(inputSize) \/ ~ TruthyNum(skuSize) THEN Zero
      ELSE LET sizeDiff == RAbs(RSub(Val(inputSize), Val(skuSize)))
           IN  IF RLe(sizeDiff, cfg.size_tolerance_mm) THEN One
               ELSE IF RLe(sizeDiff, RMul(cfg.size_tolerance_mm, Rat(2, 1))) THEN Rat(7, 10)
               ELSE IF RLe(sizeDiff, RMul(cfg.size_tolerance_mm, Rat(4, 1))) THEN Rat(3, 10)
               ELSE Zero

calculateMaterialScore_gaugeIgnored(line, sku) ==
  LET inputMaterial == line.normalized.material
      skuMaterial == sku.material
  IN  IF ~ TruthyStr(inputMaterial) /\ skuMaterial = <<>> THEN Rat(5, 10)
      ELSE IF ~ TruthyStr(inputMaterial) \/ skuMaterial = <<>> THEN Rat(2, 10)
      ELSE IF toLowerCase(Val(inputMaterial)) = toLowerCase(skuMaterial)
           THEN One ELSE Zero
calculateMaterialScore(line, sku) ==
  LET inputMaterial == line.normalized.material
      skuMaterial == sku.material
      inputGauge == line.normalized.gauge
      skuGauge == sku.gauge
  IN  IF ~ TruthyStr(inputMaterial) /\ skuMaterial = <<>> THEN Rat(5, 10)
      ELSE IF ~ TruthyStr(inputMaterial) \/ skuMaterial = <<>> THEN Rat(2, 10)
      ELSE LET materialScore ==
                 IF toLowerCase(Val(inputMaterial)) = toLowerCase(skuMaterial)
                 THEN One ELSE Zero
           IN  IF /\ sku.productFamily = "Rigid PVC Conduit"
                  /\ RLt(Zero, materialScore)
                  /\ TruthyStr(inputGauge) /\ TruthyStr(skuGauge)
               THEN IF Val(inputGauge) = Val(skuGauge) THEN One ELSE Rat(7, 10)
               ELSE materialScore

\* the number of alias words that contain, or are contained in, some input word
wordMatchCount(aliasWords, inputWords) ==
  Cardinality({i \in 1..Len(aliasWords) :
                 \E k \in 1..Len(inputWords) :
                    \/ includes(inputWords[k], aliasWords[i])
                    \/ includes(aliasWords[i], inputWords[k])})

\* one turn of the loop over the aliases of a SKU: the new maxAliasScore
aliasEntryScore(inputLower, aliasEntry, maxAliasScore) ==
  LET alias == aliasEntry.alias
      boost == aliasEntry.boost
      aliasWords == split(alias)
      inputWords == split(inputLower)
      wordMatches == wordMatchCount(aliasWords, inputWords)
      afterWords == IF wordMatches > 0
                    THEN RMax(maxAliasScore,
                              RMul(Rat(wordMatches, Len(aliasWords)), boost))
                    ELSE maxAliasScore
  IN  IF includes(inputLower, alias) \/ includes(alias, stripNonAlnum(inputLower))
      THEN RMax(afterWords, RMul(boost, Rat(8, 10)))
      ELSE afterWords

RECURSIVE aliasLoop(_, _, _, _)
aliasLoop(inputLower, skuAliases, i, maxAliasScore) ==
  IF i > Len(skuAliases) THEN maxAliasScore
  ELSE aliasLoop(inputLower, skuAliases, i + 1,
                 aliasEntryScore(inputLower, skuAliases[i], maxAliasScore))

calculateAliasScore_uncapped(aliasMap, input, sku) ==
  IF sku.skuCode \notin DOMAIN aliasMap THEN Zero
  ELSE aliasLoop(toLowerCase(input), aliasMap[sku.skuCode], 1, Zero)
calculateAliasScore(aliasMap, input, sku) ==
  IF sku.skuCode \notin DOMAIN aliasMap THEN Zero
  ELSE RMin(aliasLoop(toLowerCase(input), aliasMap[sku.skuCode], 1, Zero), One)

\* n as a decimal numeral
RECURSIVE natToString(_)
natToString(n) ==
  IF n < 10 THEN <<Digits[n + 1]>>
  ELSE natToString(n \div 10) \o <<Digits[(n % 10) + 1]>>
\* x.toFixed(1) for x >= 0: the nearest tenth, the larger one on a tie
toFixed1(x) ==
  LET tenths == (20 * x.n + x.d) \div (2 * x.d)
  IN  natToString(tenths \div 10) \o <<".">> \o <<Digits[(tenths % 10) + 1]>>

scoreSKUMatch(cfg, aliasMap, line, sku) ==
  LET fuzzyScore == calculateFuzzyScore(line.input_text, sku)
      sizeScore == calculateSizeScore(cfg, line, sku)
      materialScore == calculateMaterialScore(line, sku)
      aliasScore == calculateAliasScore(aliasMap, line.input_text, sku)
      reasons ==
        (IF RLt(Rat(5, 10), fuzzyScore)
         THEN << <<"D","e","s","c","r","i","p","t","i","o","n"," ","s","i","m","i","l","a","r","i","t","y",":"," ">> \o toFixed1(RMul(fuzzyScore, Rat(100, 1))) \o <<"%">> >>
         ELSE <<>>)
        \o (IF RLt(Rat(8, 10), sizeScore) THEN << <<"S","i","z","e"," ","m","a","t","c","h"," ","w","i","t","h","i","n"," ","t","o","l","e","r","a","n","c","e">> >>
            ELSE IF RLt(Rat(5, 10), sizeScore) THEN << <<"P","a","r","t","i","a","l"," ","s","i","z","e"," ","m","a","t","c","h">> >>
            ELSE <<>>)
        \o (IF RLt(Rat(9, 10), materialScore) THEN << <<"E","x","a","c","t"," ","m","a","t","e","r","i","a","l"," ","m","a","t","c","h">> >>
            ELSE IF RLt(Rat(5, 10), materialScore) THEN << <<"M","a","t","e","r","i","a","l"," ","s","i","m","i","l","a","r","i","t","y">> >>
            ELSE <<>>)
        \o (IF RLt(Rat(5, 10), aliasScore) THEN << <<"A","l","i","a","s"," ","m","a","t","c","h"," ","d","e","t","e","c","t","e","d">> >> ELSE <<>>)
      totalScore ==
        RAdd(RAdd(RAdd(RMul(fuzzyScore, cfg.fuzzy_weight),
                       RMul(sizeScore, cfg.size_weight)),
                  RMul(materialScore, cfg.material_weight)),
             RMul(aliasScore, cfg.alias_weight))
  IN  [sku |-> sku,
       score |-> RMin(totalScore, One),
       reasons |-> reasons,
       breakdown |-> [fuzzy_score |-> fuzzyScore,
                      size_score |-> sizeScore,
                      material_score |-> materialScore,
                      alias_score |-> aliasScore]]

\* Array.prototype.sort((a, b) => b.score - a.score): stable, so a candidate
\* goes behind every candidate already placed whose score is not smaller
RECURSIVE insertByScore_beforeEqual(_, _)
insertByScore_beforeEqual(sorted, c) ==
  IF sorted = <<>> THEN <<c>>
  ELSE IF RLe(Head(sorted).score, c.score) THEN <<c>> \o sorted
       ELSE <<Head(sorted)>> \o insertByScore_beforeEqual(Tail(sorted), c)
RECURSIVE insertByScore(_, _)
insertByScore(sorted, c) ==
  IF sorted = <<>> THEN <<c>>
  ELSE IF RLt(Head(sorted).score, c.score) THEN <<c>> \o sorted
       ELSE <<Head(sorted)>> \o insertByScore(Tail(sorted), c)
RECURSIVE sortByScoreDesc(_, _)
sortByScoreDesc(list, sorted) ==
  IF list = <<>> THEN sorted
  ELSE sortByScoreDesc(Tail(list), insertByScore(sorted, Head(list)))

MinCandidateScore == Rat(1, 10)

\* the loop of findCandidates up to the score a SKU gets: the SKUs that pass
\* the hard constraints, scored, in catalog order
RECURSIVE scoreAdmitted(_, _, _, _, _, _)
scoreAdmitted(cfg, aliasMap, line, skuCatalog, inputFamily, i) ==
  IF i > Len(skuCatalog) THEN <<>>
  ELSE LET sku == skuCatalog[i]
           rest == scoreAdmitted(cfg, aliasMap, line, skuCatalog, inputFamily, i + 1)
       IN  IF ~ passesHardConstraints(cfg, line, sku, inputFamily) THEN rest
           ELSE <<scoreSKUMatch(cfg, aliasMap, line, sku)>> \o rest

scoredCandidates(cfg, aliasMap, line, skuCatalog) ==
  scoreAdmitted(cfg, aliasMap, line, skuCatalog, getProductFamily(line.input_text), 1)

\* the rest of findCandidates: keep score > 0.1, sort by score descending
rankCandidates(scored) ==
  sortByScoreDesc(SelectSeq(scored, LAMBDA c : RLt(MinCandidateScore, c.score)), <<>>)

findCandidates(cfg, aliasMap, line, skuCatalog) ==
  rankCandidates(scoredCandidates(cfg, aliasMap, line, skuCatalog))

\* ------------------------------------------------------------------------
\* DeterministicMappingService: the decision engine
\* ------------------------------------------------------------------------
ConfidenceFloor == Rat(6, 10)

\* secondScore is number | undefined; !secondScore also holds of 0
calculateConfidence_marginIgnored(cfg, topScore, secondScore) ==
  IF RLe(cfg.auto_map_threshold, topScore) THEN "high"
  ELSE IF RLe(ConfidenceFloor, topScore) THEN "medium"
  ELSE "low"
calculateConfidence(cfg, topScore, secondScore) ==
  IF /\ RLe(cfg.auto_map_threshold, topScore)
     /\ (~ TruthyNum(secondScore)
         \/ RLe(cfg.confidence_delta, RSub(topScore, Val(secondScore))))
  THEN "high"
  ELSE IF RLe(ConfidenceFloor, topScore) THEN "medium"
  ELSE "low"

getMatchedFields(candidate) ==
  (IF RLt(Rat(5, 10), candidate.breakdown.fuzzy_score) THEN <<"description">> ELSE <<>>)
  \o (IF RLt(Rat(5, 10), candidate.breakdown.size_score) THEN <<"size">> ELSE <<>>)
  \o (IF RLt(Rat(5, 10), candidate.breakdown.material_score) THEN <<"material">> ELSE <<>>)
  \o (IF RLt(Rat(5, 10), candidate.breakdown.alias_score) THEN <<"aliases">> ELSE <<>>)

createExplanation(cfg, candidates, confidence, assumptions) ==
  LET hasTop == candidates # <<>>
      topCandidate == candidates[1]
  IN  [matched_fields |-> IF hasTop THEN getMatchedFields(topCandidate) ELSE <<>>,
       scores |-> IF hasTop
                  THEN [fuzzy_score |-> topCandidate.breakdown.fuzzy_score,
                        size_score |-> topCandidate.breakdown.size_score,
                        material_score |-> topCandidate.breakdown.material_score,
                        alias_score |-> topCandidate.breakdown.alias_score,
                        total_score |-> topCandidate.score]
                  ELSE [fuzzy_score |-> Zero, size_score |-> Zero,
                        material_score |-> Zero, alias_score |-> Zero,
                        total_score |-> Zero],
       tolerances |-> [size_tolerance_mm |-> cfg.size_tolerance_mm,
                       material_match |->
                         hasTop /\ RLt(Rat(9, 10), topCandidate.breakdown.material_score)],
       assumptions |-> assumptions,
       confidence |-> IF confidence = "failed" THEN "low" ELSE confidence,
       needs_review |-> \/ confidence = "failed"
                        \/ ~ hasTop
                        \/ RLt(topCandidate.score, cfg.auto_map_threshold)]

\* candidates.slice(0, 3).map(c => ({sku_code, score, reason}))
topThree_all(candidates) ==
  [i \in 1..Len(candidates) |->
     [sku_code |-> candidates[i].sku.skuCode,
      score |-> candidates[i].score,
      reason |-> join(candidates[i].reasons)]]
topThree(candidates) ==
  [i \in 1..(IF Len(candidates) < 3 THEN Len(candidates) ELSE 3) |->
     [sku_code |-> candidates[i].sku.skuCode,
      score |-> candidates[i].score,
      reason |-> join(candidates[i].reasons)]]

\* the result for an empty candidate list
failedResult_needsReview(cfg, candidates) ==
  [status |-> "needs_review",
   selected_sku |-> Undefined,
   candidates |-> <<>>,
   explanation |-> createExplanation(cfg, candidates, "failed", <<>>)]
failedResult(cfg, candidates) ==
  [status |-> "failed",
   selected_sku |-> Undefined,
   candidates |-> <<>>,
   explanation |-> createExplanation(cfg, candidates, "failed",
                     << <<"N","o"," ","s","u","i","t","a","b","l","e"," ","S","K","U"," ","c","a","n","d","i","d","a","t","e","s"," ","f","o","u","n","d">>,
                        <<"C","o","n","s","i","d","e","r"," ","c","h","e","c","k","i","n","g"," ","p","r","o","d","u","c","t"," ","c","a","t","a","l","o","g"," ","o","r"," ","i","n","p","u","t"," ","f","o","r","m","a","t">> >>)]

\* the needsReview flag of a non-empty candidate list
needsReviewOf_thresholdOnly(cfg, candidates) ==
  RLt(candidates[1].score, cfg.auto_map_threshold)
needsReviewOf(cfg, candidates) ==
  \/ RLt(candidates[1].score, cfg.auto_map_threshold)
  \/ (Len(candidates) >= 2
      /\ RLt(RSub(candidates[1].score, candidates[2].score), cfg.confidence_delta))

selectedSkuOf_always(needsReview, topCandidate) ==
  Some(topCandidate.sku.skuCode)
selectedSkuOf(needsReview, topCandidate) ==
  IF needsReview THEN Undefined ELSE Some(topCandidate.sku.skuCode)

decideMappingResult(cfg, candidates) ==
  IF Len(candidates) = 0 THEN failedResult(cfg, candidates)
  ELSE LET topCandidate == candidates[1]
           secondScore == IF Len(candidates) >= 2
                          THEN Some(candidates[2].score) ELSE Undefined
           confidence == calculateConfidence(cfg, topCandidate.score, secondScore)
           needsReview == needsReviewOf(cfg, candidates)
       IN  [status |-> IF needsReview THEN "needs_review" ELSE "auto_mapped",
            selected_sku |-> selectedSkuOf(needsReview, topCandidate),
            candidates |-> topThree(candidates),
            explanation |-> createExplanation(cfg, candidates, confidence,
                                              topCandidate.reasons)]

\* one turn of the loop of mapLineItems, given what findCandidates returned
\* for the normalized line
mappedLine(cfg, normalizedLine, candidates) ==
  [input_text |-> normalizedLine.input_text,
   qty |-> normalizedLine.qty,
   uom |-> normalizedLine.uom,
   raw_tokens |-> normalizedLine.raw_tokens,
   normalized |-> normalizedLine.normalized,
   mapping_result |-> decideMappingResult(cfg, candidates)]

\* ------------------------------------------------------------------------
\* QuoteCreationService.createQuote: the quote lines
\* ------------------------------------------------------------------------
\* the SKU code a mapped line is priced against, or undefined
selectedSkuCode_autoOnly(mapped) ==
  LET result == mapped.mapping_result
  IN  IF result.status = "auto_mapped" /\ IsDefined(result.selected_sku)
         /\ Val(result.selected_sku) # ""
      THEN result.selected_sku
      ELSE Undefined
selectedSkuCode(mapped) ==
  LET result == mapped.mapping_result
  IN  IF result.status = "auto_mapped" /\ IsDefined(result.selected_sku)
         /\ Val(result.selected_sku) # ""
      THEN result.selected_sku
      ELSE IF Len(result.candidates) > 0
           THEN Some(result.candidates[1].sku_code)
           ELSE Undefined

\* skuMap.get(code) after skuCatalog.forEach(sku => skuMap.set(sku.skuCode, sku)):
\* the last row with the code
skuMapGet(catalog, code) ==
  LET rows == {i \in 1..Len(catalog) : catalog[i].skuCode = code}
  IN  IF rows = {} THEN Undefined
      ELSE Some(catalog[CHOOSE i \in rows : \A j \in rows : j <= i])

\* the grouping loop: groupedMap as the list of its values in insertion order,
\* one entry per key sku.skuCode|uom|sku.rateInr
RECURSIVE groupLines(_, _, _, _)
groupLines(lines, catalog, i, grouped) ==
  IF i > Len(lines) THEN grouped
  ELSE LET mapped == lines[i]
           code == selectedSkuCode(mapped)
           sku == IF TruthyStrCode(code) THEN skuMapGet(catalog, Val(code))
                  ELSE Undefined
       IN  IF ~ IsDefined(sku) THEN groupLines(lines, catalog, i + 1, grouped)
           ELSE LET key == <<Val(sku).skuCode, mapped.uom, Val(sku).rateInr>>
                    at == {k \in 1..Len(grouped) : grouped[k].key = key}
                IN  IF at # {}
                    THEN LET k == CHOOSE x \in at : TRUE
                             qty == grouped[k].qty + mapped.qty
                         IN  groupLines(lines, catalog, i + 1,
                               [grouped EXCEPT
                                  ![k].qty = qty,
                                  ![k].line_total = RMul(Rat(qty, 1), grouped[k].unit_rate)])
                    ELSE groupLines(lines, catalog, i + 1,
                           Append(grouped,
                             [key |-> key,
                              line_no |-> 0,
                              sku_code |-> Val(sku).skuCode,
                              description |-> Val(sku).description,
                              qty |-> mapped.qty,
                              uom |-> mapped.uom,
                              unit_rate |-> Val(sku).rateInr,
                              line_total |-> RMul(Rat(mapped.qty, 1), Val(sku).rateInr),
                              explanation |-> mapped.mapping_result.explanation]))

\* a.sku_code.localeCompare(b.sku_code) < 0 on the codes of the price master
SkuCodeOrder ==
  <<"GFB3OCT", "NFC20F", "NFC25", "NFC32", "PVC21L", "PVC25H", "PVC25M", "PVC25X">>
codeRank(code) == CHOOSE r \in 1..Len(SkuCodeOrder) : SkuCodeOrder[r] = code
RECURSIVE insertByCode(_, _)
insertByCode(sorted, item) ==
  IF sorted = <<>> THEN <<item>>
  ELSE IF codeRank(item.sku_code) < codeRank(Head(sorted).sku_code)
       THEN <<item>> \o sorted
       ELSE <<Head(sorted)>> \o insertByCode(Tail(sorted), item)
RECURSIVE sortByCode(_, _)
sortByCode(list, sorted) ==
  IF list = <<>> THEN sorted
  ELSE sortByCode(Tail(list), insertByCode(sorted, Head(list)))

RECURSIVE sumLineTotals(_, _, _)
sumLineTotals(lineItems, n, sum) ==
  IF n > Len(lineItems) THEN sum
  ELSE sumLineTotals(lineItems, n + 1, RAdd(sum, lineItems[n].line_total))

\* subtotal, discount, freight, tax and grand total of the line items
quoteTotals(request, pricingConfig, lineItems) ==
  LET subtotal == sumLineTotals(lineItems, 1, Zero)
      discount == RMul(subtotal, RMul(request.header_discount_pct, Rat(1, 100)))
      discountedAmount == RSub(subtotal, discount)
      freight == RMax(RMul(discountedAmount, pricingConfig.default_freight_rate),
                      pricingConfig.freight_min_amount)
      taxableAmount == RAdd(discountedAmount,
                            IF request.freight_taxable THEN freight ELSE Zero)
      tax == RMul(taxableAmount, Rat(18, 100))
  IN  [subtotal |-> subtotal, discount |-> discount, freight |-> freight,
       tax |-> tax, grand_total |-> RAdd(RAdd(discountedAmount, freight), tax)]

\* the quote returned, or the error thrown when no line is quotable or when
\* quoteRepo.createQuote rejects
createQuote(request, pricingConfig, lines, catalog, stored) ==
  LET sorted == sortByCode(groupLines(lines, catalog, 1, <<>>), <<>>)
      lineItems == [n \in 1..Len(sorted) |->
                      [line_no |-> n,
                       sku_code |-> sorted[n].sku_code,
                       description |-> sorted[n].description,
                       qty |-> sorted[n].qty,
                       uom |-> sorted[n].uom,
                       unit_rate |-> sorted[n].unit_rate,
                       line_total |-> sorted[n].line_total,
                       explanation |-> sorted[n].explanation]]
  IN  IF Len(lineItems) = 0 \/ ~ stored
      THEN [thrown |-> TRUE, line_items |-> <<>>, totals |-> <<>>]
      ELSE [thrown |-> FALSE, line_items |-> lineItems,
            totals |-> quoteTotals(request, pricingConfig, lineItems)]

\* the normalized lines of one mapLineItems call: each turn of the loop
\* normalizes its own line and keeps nothing of the turn before
RECURSIVE carriedOver(_, _, _)
carriedOver(lines, i, previous) ==
  IF i > Len(lines) THEN <<>>
  ELSE LET own == normalizeLineItem(lines[i]).normalized
           merged == [size_mm |-> IF IsDefined(own.size_mm) THEN own.size_mm
                                  ELSE previous.size_mm,
                      material |-> IF IsDefined(own.material) THEN own.material
                                   ELSE previous.material,
                      color |-> IF IsDefined(own.color) THEN own.color
                                ELSE previous.color,
                      gauge |-> IF IsDefined(own.gauge) THEN own.gauge
                                ELSE previous.gauge]
       IN  <<[normalizeLineItem(lines[i]) EXCEPT !.normalized = merged]>>
           \o carriedOver(lines, i + 1, merged)
normalizedLines_carried(lines) ==
  carriedOver(lines, 1, [size_mm |-> Undefined, material |-> Undefined,
                         color |-> Undefined, gauge |-> Undefined])
normalizedLines(lines) ==
  [i \in 1..Len(lines) |-> normalizeLineItem(lines[i])]

\* ------------------------------------------------------------------------
\* ConfigService: the mapping configuration and the alias source
\* ------------------------------------------------------------------------
ConfigFields ==
  {"auto_map_threshold", "confidence_delta", "size_tolerance_mm",
   "fuzzy_weight", "size_weight", "material_weight", "alias_weight"}

\* the defaults loadConfig falls back to when data/config.json cannot be read
DefaultMappingConfig ==
  [auto_map_threshold |-> Rat(85, 100),
   confidence_delta   |-> Rat(12, 100),
   size_tolerance_mm  |-> Rat(2, 1),
   fuzzy_weight       |-> Rat(6, 10),
   size_weight        |-> Rat(3, 10),
   material_weight    |-> Rat(1, 10),
   alias_weight       |-> Rat(1, 10)]

\* the mapping sections a data/config.json may hold
FileMappingConfigs ==
  {[auto_map_threshold |-> Rat(7, 10),
    confidence_delta   |-> Rat(1, 10),
    size_tolerance_mm  |-> Rat(1, 1),
    fuzzy_weight       |-> Rat(4, 10),
    size_weight        |-> Rat(3, 10),
    material_weight    |-> Rat(2, 10),
    alias_weight       |-> Rat(3, 10)]}

\* what loadConfig can leave in ConfigService.config.mapping
LoadableConfigs == {DefaultMappingConfig} \cup FileMappingConfigs

\* the Partial<MappingConfig> a caller may hand to the constructor
ConfigOverrides ==
  {<<>>,
   [auto_map_threshold |-> Rat(6, 10), confidence_delta |-> Rat(5, 100)]}

\* what getSkuAliases can do: throw, or return the rows of data/sku_aliases.csv
AliasSources ==
  {[throws |-> TRUE, rows |-> <<>>],
   [throws |-> FALSE, rows |-> <<>>],
   [throws |-> FALSE,
    rows |-> << [alias |-> <<"N","F","C"," ","2","5">>, sku_code |-> "NFC25", score_boost |-> <<"0",".","9">>],
                [alias |-> <<"c","o","r","r","u","g","a","t","e","d"," ","p","i","p","e">>, sku_code |-> "NFC25", score_boost |-> <<"0",".","5">>],
                [alias |-> <<"c","o","n","d","u","i","t"," ","m","e","d","i","u","m">>, sku_code |-> "PVC25M", score_boost |-> <<"a","b","c">>],
                [alias |-> <<"f","a","n"," ","b","o","x">>, sku_code |-> "GFB3OCT", score_boost |-> <<"1",".","5">>],
                [alias |-> <<"p","i","p","e">>, sku_code |-> "NFC32", score_boost |-> <<"-","0",".","5">>] >>]}

\* { ...mappingConfig, ...config }
mergeConfig(mappingConfig, override) ==
  [f \in ConfigFields |->
     IF f \in DOMAIN override THEN override[f] ELSE mappingConfig[f]]

\* the loop of initializeAliases over the rows of the alias source
FallbackBoost == Rat(3, 10)
RECURSIVE loadAliasRows(_, _, _)
loadAliasRows(rows, i, aliasMap) ==
  IF i > Len(rows) THEN aliasMap
  ELSE LET entry == rows[i]
           parsed == parseFloat(entry.score_boost)
           item == [alias |-> toLowerCase(entry.alias),
                    boost |-> IF TruthyNum(parsed) THEN Val(parsed) ELSE FallbackBoost]
           old == IF entry.sku_code \in DOMAIN aliasMap
                  THEN aliasMap[entry.sku_code] ELSE <<>>
       IN  loadAliasRows(rows, i + 1,
             [k \in DOMAIN aliasMap \cup {entry.sku_code} |->
                IF k = entry.sku_code THEN Append(old, item) ELSE aliasMap[k]])

initializeFallbackAliases(aliasMap) ==
  LET fallbackAliases ==
        << [sku |-> "NFC25", aliases |-> << <<"2","5","m","m">>, <<"2","5">>, <<"c","o","r","r","u","g","a","t","e","d">>, <<"f","l","e","x","i","b","l","e">> >>],
           [sku |-> "NFC32", aliases |-> << <<"3","2","m","m">>, <<"3","2">>, <<"c","o","r","r","u","g","a","t","e","d">>, <<"f","l","e","x","i","b","l","e">> >>],
           [sku |-> "PVC25M", aliases |-> << <<"2","5","m","m">>, <<"2","5">>, <<"p","v","c">>, <<"c","o","n","d","u","i","t">>, <<"m","e","d","i","u","m">> >>],
           [sku |-> "GFB3OCT", aliases |-> << <<"f","a","n"," ","b","o","x">>, <<"3","\"">>, <<"3"," ","i","n","c","h">>, <<"o","c","t","a","g","o","n","a","l">> >>] >>
      codes == {fallbackAliases[i].sku : i \in 1..Len(fallbackAliases)}
      entryOf(code) == CHOOSE i \in 1..Len(fallbackAliases) : fallbackAliases[i].sku = code
  IN  [k \in DOMAIN aliasMap \cup codes |->
         IF k \in codes
         THEN [j \in 1..Len(fallbackAliases[entryOf(k)].aliases) |->
                 [alias |-> toLowerCase(fallbackAliases[entryOf(k)].aliases[j]),
                  boost |-> FallbackBoost]]
         ELSE aliasMap[k]]

initializeAliases_noFallback(source) ==
  IF source.throws THEN <<>>
  ELSE loadAliasRows(source.rows, 1, <<>>)
initializeAliases(source) ==
  IF source.throws THEN initializeFallbackAliases(<<>>)
  ELSE loadAliasRows(source.rows, 1, <<>>)

\* ------------------------------------------------------------------------
\* The inputs of the model: catalog rows and parsed RFQ lines
\* ------------------------------------------------------------------------
MaxCatalog == 2

\* rate_inr of a price master row
RateInr(code) ==
  CASE code = "NFC25" -> Rat(25, 2)
    [] code = "NFC32" -> Rat(18, 1)
    [] code = "NFC20F" -> Rat(43, 4)
    [] code = "GFB3OCT" -> Rat(95, 1)
    [] OTHER -> Rat(30, 1)

Sku(code, family, description, material, alt, gauge, size, tolerance) ==
  [skuCode |-> code, productFamily |-> family, description |-> description,
   material |-> material, altMaterial |-> alt, gauge |-> gauge,
   sizeOdMm |-> size, toleranceMm |-> tolerance, rateInr |-> RateInr(code)]

SKUs ==
  {Sku("NFC25", "Corrugated Flexible Pipe", <<"C","o","r","r","u","g","a","t","e","d"," ","F","l","e","x","i","b","l","e"," ","P","i","p","e"," ","2","5","m","m"," ","P","P">>,
       <<"P","P">>, Some(<<"F","R","P","P">>), Undefined, Some(Rat(25, 1)), Some(Rat(2, 1))),
   Sku("NFC32", "Corrugated Flexible Pipe", <<"C","o","r","r","u","g","a","t","e","d"," ","F","l","e","x","i","b","l","e"," ","P","i","p","e"," ","3","2","m","m"," ","P","P">>,
       <<"P","P">>, Undefined, Undefined, Some(Rat(32, 1)), Undefined),
   Sku("NFC20F", "Corrugated Flexible Pipe", <<"C","o","r","r","u","g","a","t","e","d"," ","F","l","e","x","i","b","l","e"," ","P","i","p","e"," ","2","0","m","m"," ","F","R","P","P">>,
       <<"F","R","P","P">>, Some(<<"P","P">>), Undefined, Some(Rat(20, 1)), Some(Zero)),
   Sku("PVC25M", "Rigid PVC Conduit", <<"P","V","C"," ","C","o","n","d","u","i","t"," ","2","5","m","m"," ","M","e","d","i","u","m">>,
       <<"P","V","C">>, Undefined, Some(<<"M">>), Some(Rat(25, 1)), Some(Rat(5, 1))),
   Sku("PVC25X", "Rigid PVC Conduit", <<"P","V","C"," ","C","o","n","d","u","i","t"," ","2","5","m","m"," ","M","e","d","i","u","m">>,
       <<"p","v","c">>, Undefined, Some(<<"M">>), Some(Rat(25, 1)), Some(Rat(5, 1))),
   Sku("PVC25H", "Rigid PVC Conduit", <<"P","V","C"," ","C","o","n","d","u","i","t"," ","2","5","m","m"," ","H","e","a","v","y">>,
       <<"P","V","C">>, Undefined, Some(<<"H">>), Some(Rat(25, 1)), Some(Rat(2, 1))),
   Sku("GFB3OCT", "GI Fan Box", <<"G","I"," ","F","a","n"," ","B","o","x"," ","3"," ","i","n","c","h"," ","O","c","t","a","g","o","n","a","l">>,
       <<>>, Undefined, Undefined, Undefined, Some(Rat(2, 1)))}

SkuOf(code) == CHOOSE sku \in SKUs : sku.skuCode = code

\* catalogs: every list of at most MaxCatalog different rows out of four, so
\* that rows meet in either order, and one whole price master of eight rows
CatalogRows == {SkuOf("NFC25"), SkuOf("PVC25M"), SkuOf("PVC25X"), SkuOf("PVC25H")}
RECURSIVE Catalogs(_)
Catalogs(n) ==
  IF n = 0 THEN {<<>>}
  ELSE LET shorter == Catalogs(n - 1)
       IN  shorter \cup
           {Append(c, sku) : c \in {x \in shorter : Len(x) = n - 1},
                             sku \in CatalogRows}
PriceMaster ==
  <<SkuOf("NFC25"), SkuOf("NFC32"), SkuOf("NFC20F"), SkuOf("PVC25M"),
    Sku("PVC21L", "Rigid PVC Conduit", <<"P","V","C"," ","C","o","n","d","u","i","t"," ","2","1","m","m"," ","L","i","g","h","t">>,
        <<"P","V","C">>, Undefined, Some(<<"L">>), Some(Rat(21, 1)), Some(Rat(5, 1))),
    SkuOf("PVC25X"), SkuOf("PVC25H"), SkuOf("GFB3OCT")>>
SkuCatalogs == {c \in Catalogs(MaxCatalog) :
                  \A i, j \in 1..Len(c) : i # j => c[i] # c[j]}
               \cup {PriceMaster, <<SkuOf("GFB3OCT")>>}

NoNormalized ==
  [size_mm |-> Undefined, material |-> Undefined,
   color |-> Undefined, gauge |-> Undefined]

Line(text, size, material, gauge) ==
  [input_text |-> text, qty |-> 10, uom |-> "M",
   raw_tokens |-> [size_token |-> size, material_token |-> material,
                   color_token |-> Undefined, gauge_token |-> gauge],
   normalized |-> NoNormalized]

ParsedLines ==
  {Line(<<"2","5","m","m"," ","c","o","r","r","u","g","a","t","e","d"," ","P","P"," ","p","i","p","e">>, Some(<<"2","5","m","m">>), Some(<<"P","P">>), Undefined),
   Line(<<"C","o","r","r","u","g","a","t","e","d"," ","F","l","e","x","i","b","l","e"," ","P","i","p","e"," ","2","5","m","m"," ","P","P">>, Some(<<"2","5","m","m">>), Some(<<"P","P">>), Undefined),
   Line(<<"c","o","r","r","u","g","a","t","e","d"," ","p","i","p","e"," ","2","0","m","m"," ","P","P">>, Some(<<"2","0","m","m">>), Some(<<"P","P">>), Undefined),
   Line(<<"f","l","e","x","i","b","l","e"," ","p","i","p","e"," ","1"," ","i","n","c","h"," ","F","R">>, Some(<<"1"," ","i","n","c","h">>), Some(<<"F","R">>), Undefined),
   Line(<<"c","o","r","r","u","g","a","t","e","d"," ","P","V","C"," ","p","i","p","e"," ","2","5","m","m">>, Some(<<"2","5","m","m">>), Some(<<"P","V","C">>), Undefined),
   Line(<<"P","V","C"," ","c","o","n","d","u","i","t"," ","2","5","m","m"," ","m","e","d","i","u","m">>, Some(<<"2","5","m","m">>), Some(<<"P","V","C">>), Some(<<"m","e","d","i","u","m">>)),
   Line(<<"p","v","c"," ","c","o","n","d","u","i","t"," ","2","6","m","m"," ","h","e","a","v","y">>, Some(<<"2","6","m","m">>), Some(<<"P","V","C">>), Some(<<"H">>)),
   Line(<<"P","V","C"," ","C","o","n","d","u","i","t"," ","2","5","m","m">>, Some(<<"2","5","m","m">>), Some(<<"P","V","C">>), Undefined),
   Line(<<"f","a","n"," ","b","o","x">>, Undefined, Undefined, Undefined),
   Line(<<"p","i","p","e"," ","2","2","m","m">>, Some(<<"2","2","m","m">>), Undefined, Undefined),
   Line(<<"p","i","p","e"," ","0","m","m"," ","x","l">>, Some(<<"0","m","m">>), Undefined, Some(<<"x","l">>))}

\* an RFQ that asks for the same conduit three times, in two units
RfqOfFourLines ==
  <<Line(<<"P","V","C"," ","C","o","n","d","u","i","t"," ","2","5","m","m">>, Some(<<"2","5","m","m">>), Some(<<"P","V","C">>), Undefined),
    Line(<<"f","a","n"," ","b","o","x">>, Undefined, Undefined, Undefined),
    [Line(<<"P","V","C"," ","c","o","n","d","u","i","t"," ","2","5","m","m"," ","m","e","d","i","u","m">>, Some(<<"2","5","m","m">>), Some(<<"P","V","C">>), Some(<<"m","e","d","i","u","m">>))
       EXCEPT !.qty = 3],
    [Line(<<"P","V","C"," ","C","o","n","d","u","i","t"," ","2","5","m","m">>, Some(<<"2","5","m","m">>), Some(<<"P","V","C">>), Undefined)
       EXCEPT !.qty = 5, !.uom = "PCS"]>>

\* the line lists handed to mapLineItems: no line, one line, two or four lines
LineBatches ==
  {<<>>} \cup {<<l>> : l \in ParsedLines}
  \cup {<<Line(<<"f","a","n"," ","b","o","x">>, Undefined, Undefined, Undefined),
          Line(<<"P","V","C"," ","c","o","n","d","u","i","t"," ","2","5","m","m"," ","m","e","d","i","u","m">>, Some(<<"2","5","m","m">>), Some(<<"P","V","C">>), Some(<<"m","e","d","i","u","m">>))>>}
  \cup {RfqOfFourLines}

\* ------------------------------------------------------------------------
\* State
\* ------------------------------------------------------------------------
VARIABLES
  quote,          \* what QuoteCreationService.createQuote returned or threw
  appConfig,      \* ConfigService.config.mapping
  pc,             \* "idle", "constructed" (a mapper exists), "mapped" (it
                  \* returned), "remapped" (its second call returned),
                  \* "quoted" (createQuote returned or threw); in POST
                  \* /api/quotes also "charging" (chargeIfNeeded is awaited)
                  \* and "rejected" (chargeIfNeeded threw)
  config,         \* DeterministicMappingService.config
  aliases,        \* DeterministicMappingService.aliases: skuCode -> alias entries
  aliasSource,    \* what getSkuAliases did when the mapper was constructed
  parsedLines,    \* the arguments of the mapLineItems call
  skuCatalog,
  scoredLists,    \* per line, the candidates findCandidates scored
  candidateLists, \* per line, the list findCandidates returned
  mappedLines,    \* the value mapLineItems returned
  laterLines,     \* the lines of a second mapLineItems call on the same mapper
  laterMapped     \* the value the second call returned

VARIABLES
  userCredits,    \* table user_credits: user_id -> credits, for the rows it holds
  chargedKeys,    \* CreditsService.chargedKeys
  charge          \* the chargeIfNeeded calls: where each stands

mappingVars == <<appConfig, pc, config, aliases, aliasSource, parsedLines, skuCatalog,
                 scoredLists, candidateLists, mappedLines, laterLines, laterMapped, quote>>
creditsVars == <<userCredits, chargedKeys, charge>>

VARIABLES
  rfqs,           \* table rfqs: the rows (idempotency_key, run_id) in insertion order
  inMemoryCache,  \* RFQParsers.inMemoryCache: idempotency key -> run_id of the result
  runIdCache,     \* RFQParsers.runIdCache: the run_ids it holds
  parse           \* the parseRFQ calls: where each stands

parserVars == <<rfqs, inMemoryCache, runIdCache, parse>>

VARIABLES
  erpSyncStore,   \* erpSyncStore: idempotency key -> erp_order_id
  erpResponses    \* the responses of POST /erp/quotes, in order

VARIABLES
  money,          \* two Money objects a caller holds (or none yet)
  moneyOutcome    \* what the last Money constructor or method call did

VARIABLES
  sessions,       \* PaymentService.sessions: session_id -> PaymentSession
  quotePayments,  \* PaymentService.quotePayments: quote_id -> the session object,
                  \* held by reference (its session_id here)
  paymentLog      \* the payment requests served, in order, with what each did

VARIABLES
  pgUsers,        \* the rows of the PostgreSQL table users, in insertion order
  memoryUsers,    \* InMemoryUserRepository.users: the User objects, in insertion order
  emailIndex,     \* InMemoryUserRepository.emailIndex: email -> user id
  dbConnected,    \* whether a query of the Database succeeds at present
  signups         \* the signup calls served, in order, with what each returned

erpVars == <<erpSyncStore, erpResponses>>
userVars == <<pgUsers, memoryUsers, emailIndex, dbConnected, signups>>
moneyVars == <<money, moneyOutcome>>
paymentVars == <<sessions, quotePayments, paymentLog>>
laterVars == <<erpVars, moneyVars, paymentVars, userVars>>
coreVars == <<mappingVars, creditsVars, parserVars>>
vars == <<mappingVars, creditsVars, parserVars, laterVars>>

NoMapper == [none |-> TRUE]
\* no createQuote call has ended
NoQuote == [none |-> TRUE]

\* the chargeIfNeeded calls of one run of the process
MaxCharges == 3
Charges == 1..MaxCharges
Buyers == {"buyer-1"}
IdempotencyKeys == {"RUN-1", "RUN-2"}
\* a call that has not been made
NoCharge ==
  [at |-> "idle", buyerId |-> "", idempotencyKey |-> "", reply |-> <<>>, took |-> 0]
\* the CreditsService singleton after construction, no call made
NoCreditsCall ==
  /\ chargedKeys = {}
  /\ charge = [c \in Charges |-> NoCharge]

\* the parseRFQ calls of one run of the process
MaxParses == 3
Parses == 1..MaxParses
\* a call that has not been made
NoParse ==
  [at |-> "idle", idempotencyKey |-> "", run_id |-> 0, created |-> FALSE,
   earlier |-> {}]
\* the RFQParsers object after construction, no call made, no row stored
NoParseCall ==
  /\ rfqs = <<>>
  /\ inMemoryCache = <<>>
  /\ runIdCache = {}
  /\ parse = [c \in Parses |-> NoParse]

\* the ERP sync store of a process that has served no request
NoErpSync ==
  /\ erpSyncStore = <<>>
  /\ erpResponses = <<>>
\* the services outside the mapping, credits and parsing flows, unused
\* no Money object made
NoMoneyObject == <<>>
NoMoney ==
  /\ money = <<NoMoneyObject, NoMoneyObject>>
  /\ moneyOutcome = [op |-> "none"]
\* the PaymentService after construction
NoPayment ==
  /\ sessions = <<>>
  /\ quotePayments = <<>>
  /\ paymentLog = <<>>
\* the HybridUserRepository after construction, the database reachable
NoUsers ==
  /\ pgUsers = <<>>
  /\ memoryUsers = <<>>
  /\ emailIndex = <<>>
  /\ dbConnected = TRUE
  /\ signups = <<>>
LaterIdle == NoErpSync /\ NoMoney /\ NoPayment /\ NoUsers
\* no mapping request is being served
NoMappingCall ==
  /\ appConfig = DefaultMappingConfig
  /\ pc = "idle"
  /\ config = NoMapper
  /\ aliases = <<>>
  /\ aliasSource = NoMapper
  /\ parsedLines = <<>>
  /\ skuCatalog = <<>>
  /\ scoredLists = <<>>
  /\ candidateLists = <<>>
  /\ mappedLines = <<>>
  /\ laterLines = <<>>
  /\ laterMapped = <<>>
  /\ quote = NoQuote

Init ==
  /\ userCredits = <<>>
  /\ NoCreditsCall
  /\ NoParseCall
  /\ LaterIdle
  /\ appConfig \in LoadableConfigs
  /\ pc = "idle"
  /\ config = NoMapper
  /\ aliases = <<>>
  /\ aliasSource = NoMapper
  /\ parsedLines = <<>>
  /\ skuCatalog = <<>>
  /\ scoredLists = <<>>
  /\ candidateLists = <<>>
  /\ mappedLines = <<>>
  /\ laterLines = <<>>
  /\ laterMapped = <<>>
  /\ quote = NoQuote

\* ConfigService.reload(): loadConfig reads data/config.json again. No request
\* handler calls it, and a mapper keeps the copy of the mapping configuration
\* its constructor made, so the reload is taken between requests.
Reload ==
  /\ UNCHANGED <<creditsVars, parserVars, laterVars>>
  /\ pc \in {"idle", "mapped"}
  /\ appConfig' \in LoadableConfigs
  /\ UNCHANGED <<pc, config, aliases, aliasSource, parsedLines, skuCatalog,
                 scoredLists, candidateLists, mappedLines, laterLines, laterMapped,
                 quote>>

\* new DeterministicMappingService(override)
NewMappingService ==
  /\ UNCHANGED <<creditsVars, parserVars, laterVars>>
  /\ pc = "idle"
  /\ \E override \in ConfigOverrides, source \in AliasSources :
       /\ config' = mergeConfig(appConfig, override)
       /\ aliases' = initializeAliases(source)
       /\ aliasSource' = source
  /\ pc' = "constructed"
  /\ UNCHANGED <<appConfig, parsedLines, skuCatalog, scoredLists, candidateLists,
                 mappedLines, laterLines, laterMapped, quote>>

\* mapper.mapLineItems(lines, catalog)
MapLineItems ==
  /\ UNCHANGED <<creditsVars, parserVars, laterVars>>
  /\ pc = "constructed"
  /\ \E lines \in LineBatches, catalog \in SkuCatalogs :
       LET normalized == normalizedLines(lines)
       IN  /\ parsedLines' = lines
           /\ skuCatalog' = catalog
           /\ scoredLists' =
                [i \in 1..Len(lines) |->
                   scoredCandidates(config, aliases, normalized[i], catalog)]
           /\ candidateLists' =
                [i \in 1..Len(lines) |-> rankCandidates(scoredLists'[i])]
           /\ mappedLines' =
                [i \in 1..Len(lines) |->
                   mappedLine(config, normalized[i], candidateLists'[i])]
  /\ pc' = "mapped"
  /\ UNCHANGED <<appConfig, config, aliases, aliasSource, laterLines, laterMapped,
                 quote>>

\* the lines a second call maps before the line it maps again: one line that
\* carries every token
PrecedingLines ==
  {<<Line(<<"f","a","n"," ","b","o","x"," ","3"," ","i","n","c","h"," ","G","I"," ","h","e","a","v","y">>, Some(<<"3"," ","i","n","c","h">>), Some(<<"G","I">>), Some(<<"h","e","a","v","y">>))>>}

\* mapper.mapLineItems(before + [line], catalog): the same mapper is called
\* again, with the same catalog and one of the lines it has mapped
MapLineItemsAgain_inPlace ==
  /\ UNCHANGED <<creditsVars, parserVars, laterVars>>
  /\ pc = "mapped"
  /\ \E i \in 1..Len(parsedLines), before \in PrecedingLines :
       LET lines == before \o <<parsedLines[i]>>
           normalized == normalizedLines(lines)
       IN  /\ laterLines' = lines
           /\ laterMapped' =
                [j \in 1..Len(lines) |->
                   mappedLine(config, normalized[j],
                              findCandidates(config, aliases, normalized[j], skuCatalog))]
           /\ parsedLines' = [parsedLines EXCEPT ![i] = normalized[Len(lines)]]
  /\ pc' = "remapped"
  /\ UNCHANGED <<appConfig, config, aliases, aliasSource, skuCatalog, scoredLists,
                 candidateLists, mappedLines, quote>>
MapLineItemsAgain ==
  /\ UNCHANGED <<creditsVars, parserVars, laterVars>>
  /\ pc = "mapped"
  /\ \E i \in 1..Len(parsedLines), before \in PrecedingLines :
       LET lines == before \o <<parsedLines[i]>>
           normalized == normalizedLines(lines)
       IN  /\ laterLines' = lines
           /\ laterMapped' =
                [j \in 1..Len(lines) |->
                   mappedLine(config, normalized[j],
                              findCandidates(config, aliases, normalized[j], skuCatalog))]
  /\ pc' = "remapped"
  /\ UNCHANGED <<appConfig, config, aliases, aliasSource, parsedLines, skuCatalog,
                 scoredLists, candidateLists, mappedLines, quote>>

\* the quote requests: header discount in percent, freight taxable or not
QuoteRequests ==
  {[header_discount_pct |-> Zero, freight_taxable |-> FALSE],
   [header_discount_pct |-> Rat(10, 1), freight_taxable |-> TRUE]}
\* ConfigService.getPricingConfig()
PricingConfigs ==
  {[default_freight_rate |-> Rat(5, 100), freight_min_amount |-> Rat(50, 1)]}

\* quoteService.createQuote(request, mappedLines, skuCatalog): the mapped lines
\* are priced; saving the quote succeeds or rejects
CreateQuote ==
  /\ UNCHANGED <<creditsVars, parserVars, laterVars>>
  /\ pc = "mapped"
  /\ \E request \in QuoteRequests, pricingConfig \in PricingConfigs, stored \in BOOLEAN :
       quote' = createQuote(request, pricingConfig, mappedLines, skuCatalog, stored)
  /\ pc' = "quoted"
  /\ UNCHANGED <<appConfig, config, aliases, aliasSource, parsedLines, skuCatalog,
                 scoredLists, candidateLists, mappedLines, laterLines, laterMapped>>

\* the request that built the mapper has answered; the mapper is dropped
Respond ==
  /\ UNCHANGED <<creditsVars, parserVars, laterVars>>
  /\ pc \in {"mapped", "remapped", "quoted"}
  /\ quote' = NoQuote
  /\ pc' = "idle"
  /\ config' = NoMapper
  /\ aliases' = <<>>
  /\ aliasSource' = NoMapper
  /\ parsedLines' = <<>>
  /\ skuCatalog' = <<>>
  /\ scoredLists' = <<>>
  /\ candidateLists' = <<>>
  /\ mappedLines' = <<>>
  /\ laterLines' = <<>>
  /\ laterMapped' = <<>>
  /\ UNCHANGED appConfig

Next ==
  \/ Reload \/ NewMappingService \/ MapLineItems \/ MapLineItemsAgain
  \/ CreateQuote \/ Respond

Spec == Init /\ [][Next]_vars

\* ------------------------------------------------------------------------
\* CreditsService.chargeIfNeeded over PostgreSQLCreditsRepository: the calls
\* of concurrent requests interleave at their awaited queries
\* ------------------------------------------------------------------------
\* the table user_credits when the process starts
UserCreditsTables ==
  {<<>>} \cup {[b \in Buyers |-> n] : n \in 0..2}
HasRow(userId) == userId \in DOMAIN userCredits
\* replies of db.query: an error, or the rows of the result
QueryError == [error |-> TRUE, rows |-> <<>>]
Rows(rows) == [error |-> FALSE, rows |-> rows]
Pending == <<>>

CreditsInit ==
  /\ userCredits \in UserCreditsTables
  /\ NoCreditsCall
  /\ NoParseCall
  /\ LaterIdle
  /\ appConfig = DefaultMappingConfig
  /\ pc = "idle"
  /\ config = NoMapper
  /\ aliases = <<>>
  /\ aliasSource = NoMapper
  /\ parsedLines = <<>>
  /\ skuCatalog = <<>>
  /\ scoredLists = <<>>
  /\ candidateLists = <<>>
  /\ mappedLines = <<>>
  /\ laterLines = <<>>
  /\ laterMapped = <<>>
  /\ quote = NoQuote

\* chargeIfNeeded(buyerId, idempotencyKey) up to its first await: a charged key
\* returns at once, else hasEnoughCredits -> getCredits sends its SELECT
ChargeIfNeeded ==
  /\ \E c \in Charges, buyerId \in Buyers, idempotencyKey \in IdempotencyKeys :
       /\ charge[c].at = "idle"
       /\ \A d \in Charges : d < c => charge[d].at # "idle"
       /\ charge' = [charge EXCEPT ![c] =
             [at |-> IF idempotencyKey \in chargedKeys THEN "returned" ELSE "getCredits",
              buyerId |-> buyerId, idempotencyKey |-> idempotencyKey,
              reply |-> Pending, took |-> 0]]
  /\ UNCHANGED <<userCredits, chargedKeys, mappingVars, parserVars, laterVars>>

\* the database answers 'SELECT credits FROM user_credits WHERE user_id = $1'
SelectCredits ==
  /\ \E c \in Charges :
       /\ charge[c].at = "getCredits"
       /\ charge[c].reply = Pending
       /\ \E reply \in {QueryError,
                         IF HasRow(charge[c].buyerId)
                         THEN Rows(<<userCredits[charge[c].buyerId]>>)
                         ELSE Rows(<<>>)} :
             charge' = [charge EXCEPT ![c].reply = <<reply>>]
  /\ UNCHANGED <<userCredits, chargedKeys, mappingVars, parserVars, laterVars>>

\* getCredits resumes: an error makes it return 0, no row makes it send
\* setCredits(userId, 10), a row gives rows[0].credits || 0; hasEnoughCredits
\* compares with 1 and chargeIfNeeded throws or sends deductCredits
GetCreditsResumes ==
  /\ \E c \in Charges :
       /\ charge[c].at = "getCredits"
       /\ charge[c].reply # Pending
       /\ LET reply == charge[c].reply[1]
               next == IF reply.error THEN "thrown"
                       ELSE IF Len(reply.rows) = 0 THEN "setCredits"
                       ELSE IF reply.rows[1] >= 1 THEN "deductCredits"
                       ELSE "thrown"
           IN  charge' = [charge EXCEPT ![c].at = next, ![c].reply = Pending]
  /\ UNCHANGED <<userCredits, chargedKeys, mappingVars, parserVars, laterVars>>

\* the database answers the upsert of setCredits(userId, 10)
UpsertDefaultCredits ==
  /\ \E c \in Charges :
       /\ charge[c].at = "setCredits"
       /\ charge[c].reply = Pending
       /\ \/ /\ charge' = [charge EXCEPT ![c].reply = <<QueryError>>]
             /\ UNCHANGED userCredits
          \/ /\ charge' = [charge EXCEPT ![c].reply = <<Rows(<<>>)>>]
             /\ userCredits' =
                  [b \in DOMAIN userCredits \cup {charge[c].buyerId} |->
                     IF b = charge[c].buyerId THEN 10 ELSE userCredits[b]]
  /\ UNCHANGED <<chargedKeys, mappingVars, parserVars, laterVars>>

\* setCredits resumes: its error is caught by getCredits, which returns 0, so
\* chargeIfNeeded throws; else getCredits returns 10 and deductCredits is sent
SetCreditsResumes ==
  /\ \E c \in Charges :
       /\ charge[c].at = "setCredits"
       /\ charge[c].reply # Pending
       /\ charge' = [charge EXCEPT
             ![c].at = IF charge[c].reply[1].error THEN "thrown" ELSE "deductCredits",
             ![c].reply = Pending]
  /\ UNCHANGED <<userCredits, chargedKeys, mappingVars, parserVars, laterVars>>

\* the database answers 'UPDATE user_credits SET credits = credits - 1 WHERE
\* user_id = $1 AND credits >= 1 RETURNING credits'
UpdateCredits ==
  /\ \E c \in Charges :
       /\ charge[c].at = "deductCredits"
       /\ charge[c].reply = Pending
       /\ LET userId == charge[c].buyerId
           IN  \/ /\ charge' = [charge EXCEPT ![c].reply = <<QueryError>>]
                  /\ UNCHANGED userCredits
               \/ /\ HasRow(userId) /\ userCredits[userId] >= 1
                  /\ userCredits' = [userCredits EXCEPT ![userId] = @ - 1]
                  /\ charge' = [charge EXCEPT
                        ![c].reply = <<Rows(<<userCredits'[userId]>>)>>,
                        ![c].took = 1]
               \/ /\ ~ (HasRow(userId) /\ userCredits[userId] >= 1)
                  /\ charge' = [charge EXCEPT ![c].reply = <<Rows(<<>>)>>]
                  /\ UNCHANGED userCredits
  /\ UNCHANGED <<chargedKeys, mappingVars, parserVars, laterVars>>

\* deductCredits resumes with rows.length > 0, or false after an error;
\* chargeIfNeeded records the key and returns, or throws
DeductCreditsResumes ==
  /\ \E c \in Charges :
       /\ charge[c].at = "deductCredits"
       /\ charge[c].reply # Pending
       /\ LET reply == charge[c].reply[1]
               success == ~ reply.error /\ Len(reply.rows) > 0
           IN  /\ charge' = [charge EXCEPT
                     ![c].at = IF success THEN "returned" ELSE "thrown",
                     ![c].reply = Pending]
               /\ chargedKeys' = IF success
                                 THEN chargedKeys \cup {charge[c].idempotencyKey}
                                 ELSE chargedKeys
  /\ UNCHANGED <<userCredits, mappingVars, parserVars, laterVars>>

CreditsNext ==
  \/ ChargeIfNeeded \/ SelectCredits \/ GetCreditsResumes \/ UpsertDefaultCredits
  \/ SetCreditsResumes \/ UpdateCredits \/ DeductCreditsResumes

CreditsSpec == CreditsInit /\ [][CreditsNext]_vars

\* ------------------------------------------------------------------------
\* POST /api/quotes: map the lines of a run, charge a credit, create the quote
\* ------------------------------------------------------------------------
\* rfqParsers.getRun(run_id).parsed_lines of the runs that exist
RunLines(run_id) ==
  IF run_id = "RUN-1" THEN RfqOfFourLines
  ELSE <<Line(<<"P","V","C"," ","c","o","n","d","u","i","t"," ","5","0","m","m">>, Some(<<"5","0","m","m">>), Some(<<"P","V","C">>), Undefined)>>
\* the chargeIfNeeded call of the request being served: the last one made
CurrentCharge ==
  CHOOSE c \in Charges :
     charge[c].at # "idle" /\ \A d \in Charges : d > c => charge[d].at = "idle"

\* the handler up to the first await of chargeIfNeeded(buyerId, run_id): the
\* run is read, the price master loaded, a mapper built and the lines mapped
PostQuotes ==
  /\ pc = "idle"
  /\ \E c \in Charges, run_id \in IdempotencyKeys, source \in AliasSources :
       LET lines == RunLines(run_id)
           catalog == PriceMaster
           cfg == mergeConfig(appConfig, <<>>)
           index == initializeAliases(source)
           normalized == normalizedLines(lines)
       IN  /\ charge[c].at = "idle"
           /\ \A d \in Charges : d < c => charge[d].at # "idle"
           /\ config' = cfg
           /\ aliases' = index
           /\ aliasSource' = source
           /\ parsedLines' = lines
           /\ skuCatalog' = catalog
           /\ scoredLists' =
                [i \in 1..Len(lines) |-> scoredCandidates(cfg, index, normalized[i], catalog)]
           /\ candidateLists' =
                [i \in 1..Len(lines) |-> rankCandidates(scoredLists'[i])]
           /\ mappedLines' =
                [i \in 1..Len(lines) |-> mappedLine(cfg, normalized[i], candidateLists'[i])]
           /\ charge' = [charge EXCEPT ![c] =
                 [at |-> IF run_id \in chargedKeys THEN "returned" ELSE "getCredits",
                  buyerId |-> "buyer-1", idempotencyKey |-> run_id,
                  reply |-> Pending, took |-> 0]]
  /\ pc' = "charging"
  /\ UNCHANGED <<appConfig, laterLines, laterMapped, quote, userCredits, chargedKeys,
                 parserVars, laterVars>>

\* chargeIfNeeded has returned: createQuote prices the mapped lines, and the
\* route answers 201 with the quote or 400 with the error createQuote threw
PostQuotesCreate ==
  /\ pc = "charging"
  /\ charge[CurrentCharge].at = "returned"
  /\ \E request \in QuoteRequests, pricingConfig \in PricingConfigs, stored \in BOOLEAN :
       quote' = createQuote(request, pricingConfig, mappedLines, skuCatalog, stored)
  /\ pc' = "quoted"
  /\ UNCHANGED <<appConfig, config, aliases, aliasSource, parsedLines, skuCatalog,
                 scoredLists, candidateLists, mappedLines, laterLines, laterMapped,
                 creditsVars, parserVars, laterVars>>

\* chargeIfNeeded has thrown: the route answers 400 without creating a quote
PostQuotesRejected ==
  /\ pc = "charging"
  /\ charge[CurrentCharge].at = "thrown"
  /\ pc' = "rejected"
  /\ UNCHANGED <<appConfig, config, aliases, aliasSource, parsedLines, skuCatalog,
                 scoredLists, candidateLists, mappedLines, laterLines, laterMapped,
                 quote, creditsVars, parserVars, laterVars>>

\* the response is sent; the mapper and the quote go out of scope
PostQuotesResponds ==
  /\ pc \in {"quoted", "rejected"}
  /\ pc' = "idle"
  /\ config' = NoMapper
  /\ aliases' = <<>>
  /\ aliasSource' = NoMapper
  /\ parsedLines' = <<>>
  /\ skuCatalog' = <<>>
  /\ scoredLists' = <<>>
  /\ candidateLists' = <<>>
  /\ mappedLines' = <<>>
  /\ quote' = NoQuote
  /\ UNCHANGED <<appConfig, laterLines, laterMapped, creditsVars, parserVars, laterVars>>

QuotesNext ==
  \/ PostQuotes \/ SelectCredits \/ GetCreditsResumes \/ UpsertDefaultCredits
  \/ SetCreditsResumes \/ UpdateCredits \/ DeductCreditsResumes
  \/ PostQuotesCreate \/ PostQuotesRejected \/ PostQuotesResponds

QuotesSpec == CreditsInit /\ [][QuotesNext]_vars

\* ------------------------------------------------------------------------
\* RFQParsers.parseRFQ: the idempotency lookup and the store with its
\* in-memory fallback
\* ------------------------------------------------------------------------
\* params.idempotency_key (none given: '') and the content of the request
GivenKeys == {"", "K1", "K2"}
Contents == {"", "25mm PVC conduit x 10"}
\* sha256 of buyer_id:type:content, the key of a request that gives none
HashKey(content) == "sha256:" \o content
\* rows[0].run_id of the rfqs rows with the key, or nothing
rowsWithKey(key) == SelectSeq(rfqs, LAMBDA row : row.idempotency_key = key)
\* the run_ids that calls with this key have returned so far
ReturnedFor(key) ==
  {parse[d].run_id : d \in {e \in Parses : /\ parse[e].at = "returned"
                                            /\ parse[e].idempotencyKey = key}}

ParserInit ==
  /\ NoParseCall
  /\ LaterIdle
  /\ userCredits = <<>>
  /\ NoCreditsCall
  /\ appConfig = DefaultMappingConfig
  /\ pc = "idle"
  /\ config = NoMapper
  /\ aliases = <<>>
  /\ aliasSource = NoMapper
  /\ parsedLines = <<>>
  /\ skuCatalog = <<>>
  /\ scoredLists = <<>>
  /\ candidateLists = <<>>
  /\ mappedLines = <<>>
  /\ laterLines = <<>>
  /\ laterMapped = <<>>
  /\ quote = NoQuote

\* parseRFQ up to the parse: empty content throws; the key is the given one or
\* the hash; the database is asked when it is connected, and a lookup that
\* fails or times out counts as no result; then the in-memory cache; a result
\* found is returned, else a fresh run_id is drawn and the content parsed
ParseRFQ ==
  /\ \E c \in Parses, given \in GivenKeys, content \in Contents,
        isConnected \in BOOLEAN, answered \in BOOLEAN :
       /\ parse[c].at = "idle"
       /\ \A d \in Parses : d < c => parse[d].at # "idle"
       /\ LET idempotencyKey == IF given # "" THEN given ELSE HashKey(content)
               rows == rowsWithKey(idempotencyKey)
               existingResult ==
                 IF isConnected /\ answered /\ Len(rows) > 0
                 THEN Some(rows[1].run_id)
                 ELSE IF idempotencyKey \in DOMAIN inMemoryCache
                      THEN Some(inMemoryCache[idempotencyKey])
                      ELSE Undefined
           IN  parse' = [parse EXCEPT ![c] =
                 IF content = ""
                 THEN [NoParse EXCEPT !.at = "thrown"]
                 ELSE IF IsDefined(existingResult)
                 THEN [at |-> "returned", idempotencyKey |-> idempotencyKey,
                       run_id |-> Val(existingResult), created |-> FALSE,
                       earlier |-> ReturnedFor(idempotencyKey)]
                 ELSE [at |-> "store", idempotencyKey |-> idempotencyKey,
                       run_id |-> c, created |-> TRUE,
                       earlier |-> ReturnedFor(idempotencyKey)]]
  /\ UNCHANGED <<rfqs, inMemoryCache, runIdCache, mappingVars, creditsVars, laterVars>>

\* the store of parseRFQ: with the database connected storeParseResult
\* inserts the rfqs row; when it is not connected, or the store rejects or
\* times out, the result goes to the two in-memory caches. A store that times
\* out may still commit its row. Then the result is returned.
StoreParseResult ==
  /\ \E c \in Parses, isConnected \in BOOLEAN, committed \in BOOLEAN,
        intime \in BOOLEAN :
       /\ parse[c].at = "store"
       /\ LET key == parse[c].idempotencyKey
               runId == parse[c].run_id
               inserted == isConnected /\ committed
               fallback == ~ (isConnected /\ committed /\ intime)
           IN  /\ rfqs' = IF inserted
                          THEN Append(rfqs, [idempotency_key |-> key, run_id |-> runId])
                          ELSE rfqs
               /\ inMemoryCache' =
                    IF fallback
                    THEN [k \in DOMAIN inMemoryCache \cup {key} |->
                            IF k = key THEN runId ELSE inMemoryCache[k]]
                    ELSE inMemoryCache
               /\ runIdCache' = IF fallback THEN runIdCache \cup {runId} ELSE runIdCache
               /\ parse' = [parse EXCEPT ![c].at = "returned"]
  /\ UNCHANGED <<mappingVars, creditsVars, laterVars>>

\* POST /admin/cache/clear: rfqParsers.clearCaches()
ClearCaches ==
  /\ inMemoryCache # <<>> \/ runIdCache # {}
  /\ inMemoryCache' = <<>>
  /\ runIdCache' = {}
  /\ UNCHANGED <<rfqs, parse, mappingVars, creditsVars, laterVars>>

ParserNext == ParseRFQ \/ StoreParseResult \/ ClearCaches

ParserSpec == ParserInit /\ [][ParserNext]_vars

\* ------------------------------------------------------------------------
\* POST /erp/quotes: the ERP sync stub and its in-memory store
\* ------------------------------------------------------------------------
\* the requests served in one run of the process
MaxErpRequests == 4

\* the handler after authentication: 400 without key or quote, 200 with the
\* stored order id for a key seen before, else 201 with a new order id that
\* is stored under the key
erpSync_noLookup(store, idempotency_key, hasQuote, newId) ==
  IF idempotency_key = "" \/ ~ hasQuote
  THEN [status |-> 400, erp_order_id |-> "", store |-> store]
  ELSE [status |-> 201, erp_order_id |-> newId,
        store |-> [k \in DOMAIN store \cup {idempotency_key} |->
                     IF k = idempotency_key THEN newId ELSE store[k]]]
erpSync(store, idempotency_key, hasQuote, newId) ==
  IF idempotency_key = "" \/ ~ hasQuote
  THEN [status |-> 400, erp_order_id |-> "", store |-> store]
  ELSE IF idempotency_key \in DOMAIN store
  THEN [status |-> 200, erp_order_id |-> store[idempotency_key], store |-> store]
  ELSE [status |-> 201, erp_order_id |-> newId,
        store |-> [k \in DOMAIN store \cup {idempotency_key} |->
                     IF k = idempotency_key THEN newId ELSE store[k]]]

\* one POST /erp/quotes request: authMiddleware.authenticate answers 401 or
\* lets the handler run; the order id drawn from the clock and Math.random is
\* one of a few ids, which may repeat
ErpQuotes ==
  /\ Len(erpResponses) < MaxErpRequests
  /\ \E authenticated \in BOOLEAN, idempotency_key \in {"", "sha-1", "sha-2"},
        hasQuote \in BOOLEAN, newId \in {"ERP-A", "ERP-B"} :
       LET answer == IF authenticated
                     THEN erpSync(erpSyncStore, idempotency_key, hasQuote, newId)
                     ELSE [status |-> 401, erp_order_id |-> "", store |-> erpSyncStore]
       IN  /\ erpSyncStore' = answer.store
           /\ erpResponses' = Append(erpResponses,
                 [idempotency_key |-> idempotency_key, status |-> answer.status,
                  erp_order_id |-> answer.erp_order_id,
                  stored |-> answer.store # erpSyncStore])
  /\ UNCHANGED <<coreVars, moneyVars, paymentVars, userVars>>

\* the mapping, credits and parsing flows unused
CoreIdle == NoMappingCall /\ userCredits = <<>> /\ NoCreditsCall /\ NoParseCall

ErpInit == NoErpSync /\ NoMoney /\ NoPayment /\ NoUsers /\ CoreIdle

ErpNext == ErpQuotes

ErpSpec == ErpInit /\ [][ErpNext]_vars

\* ------------------------------------------------------------------------
\* Money: the value object
\* ------------------------------------------------------------------------
\* Math.round(amount * 100) / 100 of an amount that is not negative
roundToCents(amount) == Rat((200 * amount.n + amount.d) \div (2 * amount.d), 100)
\* a / b for b # 0
RDiv(a, b) ==
  IF b.n < 0 THEN RMul(RNeg(a), [n |-> b.d, d |-> -b.n])
  ELSE RMul(a, [n |-> b.d, d |-> b.n])

Throws(message) == [thrown |-> TRUE, message |-> message]
Returns(value) == [thrown |-> FALSE, value |-> value]

\* new Money(amount, currency)
newMoney_unchecked(amount, currency) ==
  Returns([amount |-> IF RLt(amount, Zero) THEN amount ELSE roundToCents(amount),
           currency |-> currency])
newMoney(amount, currency) ==
  IF RLt(amount, Zero) THEN Throws("Amount cannot be negative")
  ELSE Returns([amount |-> roundToCents(amount), currency |-> currency])

\* this.ensureSameCurrency(other): the message it throws, or ''
ensureSameCurrency(this, other) ==
  IF this.currency # other.currency
  THEN "Currency mismatch: " \o this.currency \o " vs " \o other.currency
  ELSE ""

\* the methods that take another Money
moneyWithOther(op, this, other) ==
  LET mismatch == ensureSameCurrency(this, other)
  IN  IF op = "equals"
      THEN Returns(this.amount = other.amount /\ this.currency = other.currency)
      ELSE IF mismatch # "" THEN Throws(mismatch)
      ELSE CASE op = "add" -> newMoney(RAdd(this.amount, other.amount), this.currency)
             [] op = "subtract" -> newMoney(RSub(this.amount, other.amount), this.currency)
             [] op = "isGreaterThan" -> Returns(RLt(other.amount, this.amount))
             [] op = "isLessThan" -> Returns(RLt(this.amount, other.amount))
\* the methods that take a number
moneyWithNumber(op, this, factor) ==
  CASE op = "multiply" -> newMoney(RMul(this.amount, factor), this.currency)
    [] op = "divide" ->
         IF factor = Zero THEN Throws("Cannot divide by zero")
         ELSE newMoney(RDiv(this.amount, factor), this.currency)
    [] op = "percentage" ->
         newMoney(RMul(RMul(this.amount, factor), Rat(1, 100)), this.currency)

\* the numbers handed to the constructor and to the methods
MoneyAmounts ==
  {Rat(-10, 1), Rat(-1, 1000), Zero, Rat(1, 3), Rat(50, 1), Rat(100, 1),
   Rat(100999, 1000)}
MoneyFactors == {Rat(-2, 1), Zero, Rat(1, 2), Rat(3, 1), Rat(18, 1)}
Currencies == {"INR", "USD"}

\* new Money(amount, currency): the caller keeps the object in a slot
MoneyNew ==
  /\ \E slot \in 1..2, amount \in MoneyAmounts, currency \in Currencies :
       LET made == newMoney(amount, currency)
       IN  /\ moneyOutcome' = [op |-> "new", amount |-> amount, currency |-> currency,
                                result |-> made]
           /\ money' = IF made.thrown THEN money
                       ELSE [money EXCEPT ![slot] = <<made.value>>]
  /\ UNCHANGED <<coreVars, erpVars, paymentVars, userVars>>

\* this.add(other), subtract, equals, isGreaterThan, isLessThan on the two
\* objects held, in either order; the objects have no setter
MoneyWithOther ==
  /\ \E a, b \in 1..2, op \in {"add", "subtract", "equals", "isGreaterThan", "isLessThan"} :
       /\ money[a] # NoMoneyObject /\ money[b] # NoMoneyObject
       /\ moneyOutcome' = [op |-> op, this |-> money[a][1], other |-> money[b][1],
                            result |-> moneyWithOther(op, money[a][1], money[b][1])]
  /\ UNCHANGED <<money, coreVars, erpVars, paymentVars, userVars>>

\* this.multiply(factor), divide, percentage
MoneyWithNumber ==
  /\ \E a \in 1..2, op \in {"multiply", "divide", "percentage"}, factor \in MoneyFactors :
       /\ money[a] # NoMoneyObject
       /\ moneyOutcome' = [op |-> op, this |-> money[a][1], factor |-> factor,
                            result |-> moneyWithNumber(op, money[a][1], factor)]
  /\ UNCHANGED <<money, coreVars, erpVars, paymentVars, userVars>>

MoneyInit == NoMoney /\ NoErpSync /\ NoPayment /\ NoUsers /\ CoreIdle

MoneyNext == MoneyNew \/ MoneyWithOther \/ MoneyWithNumber

MoneySpec == MoneyInit /\ [][MoneyNext]_vars

\* ------------------------------------------------------------------------
\* PaymentService and the payment routes: checkout sessions, webhooks, the
\* success redirect and the credits purchase
\* ------------------------------------------------------------------------
\* the requests served and the sessions created in one run of the process
MaxPaymentRequests == 4
MaxSessions == 2
\* the session ids Stripe hands out, and one id it never handed out
SessionIds == 1..MaxSessions
RequestSessionIds == 1..(MaxSessions + 1)

HasSession(session_id) == session_id \in DOMAIN sessions
\* map.set(key, value)
MapSet(map, key, value) ==
  [k \in DOMAIN map \cup {key} |-> IF k = key THEN value ELSE map[k]]

\* PaymentService.isQuotePaid(quoteId)
isQuotePaid(quoteId) ==
  quoteId \in DOMAIN quotePayments /\ sessions[quotePayments[quoteId]].status = "paid"

\* PaymentService.handleWebhook(event) on a session it holds: the session
\* object is changed in place, and a completed session is put in quotePayments
handleWebhook(type, session_id) ==
  IF ~ HasSession(session_id)
  THEN [thrown |-> "Session not found", sessions |-> sessions, quotePayments |-> quotePayments]
  ELSE IF type = "checkout.session.completed"
  THEN [thrown |-> "",
        sessions |-> [sessions EXCEPT ![session_id].status = "paid"],
        quotePayments |-> MapSet(quotePayments, sessions[session_id].quote_id, session_id)]
  ELSE IF type = "checkout.session.expired"
  THEN [thrown |-> "",
        sessions |-> [sessions EXCEPT ![session_id].status = "expired"],
        quotePayments |-> quotePayments]
  ELSE [thrown |-> "Unsupported webhook event type", sessions |-> sessions,
        quotePayments |-> quotePayments]

\* PostgreSQLCreditsRepository.addCredits(userId, delta): the upsert
addCredits(table, userId, delta) ==
  MapSet(table, userId, IF userId \in DOMAIN table THEN table[userId] + delta ELSE delta)

\* a served request in the log
Served(op, session_id, type, answer, granted, statusAtGrant) ==
  [op |-> op, session_id |-> session_id, type |-> type, answer |-> answer,
   granted |-> granted, statusAtGrant |-> statusAtGrant]

\* POST /api/payments/create-session -> createCheckoutSession: rejected for
\* a bad amount or currency and for a quote whose payment is paid, else a
\* pending session is registered under the id Stripe returns
CreateCheckoutSession ==
  /\ Len(paymentLog) < MaxPaymentRequests
  /\ \E quote_id \in {"Q-1"}, amount \in {0, 250}, currency \in {"INR", "USD"} :
       LET rejected == IF amount <= 0 THEN "Invalid quote_id or amount"
                       ELSE IF currency # "INR" THEN "Only INR currency is supported"
                       ELSE IF isQuotePaid(quote_id) THEN "Quote has already been paid"
                       ELSE ""
           session_id == Len(sessions) + 1
       IN  IF rejected # ""
           THEN /\ paymentLog' = Append(paymentLog,
                      Served("create-session", 0, quote_id, rejected, 0, ""))
                /\ UNCHANGED sessions
           ELSE /\ session_id \in SessionIds
                /\ sessions' = MapSet(sessions, session_id,
                      [status |-> "pending", quote_id |-> quote_id, buyer_id |-> "buyer-1",
                       kind |-> "quote", credits_to_add |-> 0])
                /\ paymentLog' = Append(paymentLog,
                      Served("create-session", session_id, quote_id, "", 0, ""))
  /\ UNCHANGED <<quotePayments, coreVars, erpVars, moneyVars, userVars>>

\* POST /api/credits/purchase/session -> createCreditsSession
CreateCreditsSession ==
  /\ Len(paymentLog) < MaxPaymentRequests
  /\ Len(sessions) + 1 \in SessionIds
  /\ sessions' = MapSet(sessions, Len(sessions) + 1,
        [status |-> "pending", quote_id |-> "CREDITS-buyer-1", buyer_id |-> "buyer-1",
         kind |-> "credits", credits_to_add |-> 5])
  /\ paymentLog' = Append(paymentLog,
        Served("credits-session", Len(sessions) + 1, "", "", 0, ""))
  /\ UNCHANGED <<quotePayments, coreVars, erpVars, moneyVars, userVars>>

\* POST /api/payments/webhook with a valid signature: handleWebhook, then the
\* credits of a paid credits session are added
PaymentsWebhook ==
  /\ Len(paymentLog) < MaxPaymentRequests
  /\ \E session_id \in RequestSessionIds,
        type \in {"checkout.session.completed", "checkout.session.expired",
                  "payment_intent.succeeded"} :
       LET handled == handleWebhook(type, session_id)
           session == handled.sessions[session_id]
           grants == /\ handled.thrown = ""
                     /\ session.kind = "credits" /\ session.status = "paid"
                     /\ session.credits_to_add # 0
       IN  /\ sessions' = handled.sessions
           /\ quotePayments' = handled.quotePayments
           /\ userCredits' = IF grants
                             THEN addCredits(userCredits, session.buyer_id,
                                             session.credits_to_add)
                             ELSE userCredits
           /\ paymentLog' = Append(paymentLog,
                 Served("webhook", session_id, type, handled.thrown,
                        IF grants THEN session.credits_to_add ELSE 0,
                        IF grants THEN session.status ELSE ""))
  /\ UNCHANGED <<chargedKeys, charge, mappingVars, parserVars, erpVars, moneyVars, userVars>>

\* GET /api/payments/success?session_id=: the credits of a credits session
\* are added, then the session is marked completed
PaymentsSuccess ==
  /\ Len(paymentLog) < MaxPaymentRequests
  /\ \E session_id \in RequestSessionIds :
       IF ~ HasSession(session_id)
       THEN /\ paymentLog' = Append(paymentLog,
                  Served("success", session_id, "", "session_not_found", 0, ""))
            /\ UNCHANGED <<sessions, quotePayments, userCredits>>
       ELSE LET session == sessions[session_id]
                grants == session.kind = "credits" /\ session.credits_to_add # 0
                handled == handleWebhook("checkout.session.completed", session_id)
            IN  /\ userCredits' = IF grants
                                  THEN addCredits(userCredits, session.buyer_id,
                                                  session.credits_to_add)
                                  ELSE userCredits
                /\ sessions' = handled.sessions
                /\ quotePayments' = handled.quotePayments
                /\ paymentLog' = Append(paymentLog,
                      Served("success", session_id, "", "",
                             IF grants THEN session.credits_to_add ELSE 0,
                             IF grants THEN session.status ELSE ""))
  /\ UNCHANGED <<chargedKeys, charge, mappingVars, parserVars, erpVars, moneyVars, userVars>>

\* POST /api/credits/purchase/complete: the session is marked completed, then
\* the credits of a paid credits session are added
CreditsPurchaseComplete ==
  /\ Len(paymentLog) < MaxPaymentRequests
  /\ \E session_id \in RequestSessionIds :
       LET handled == handleWebhook("checkout.session.completed", session_id)
           session == handled.sessions[session_id]
           grants == /\ handled.thrown = ""
                     /\ session.kind = "credits" /\ session.status = "paid"
                     /\ session.credits_to_add # 0
       IN  /\ sessions' = handled.sessions
           /\ quotePayments' = handled.quotePayments
           /\ userCredits' = IF grants
                             THEN addCredits(userCredits, session.buyer_id,
                                             session.credits_to_add)
                             ELSE userCredits
           /\ paymentLog' = Append(paymentLog,
                 Served("complete", session_id, "", handled.thrown,
                        IF grants THEN session.credits_to_add ELSE 0,
                        IF grants THEN session.status ELSE ""))
  /\ UNCHANGED <<chargedKeys, charge, mappingVars, parserVars, erpVars, moneyVars, userVars>>

PaymentInit == NoPayment /\ NoErpSync /\ NoMoney /\ NoUsers /\ CoreIdle

PaymentNext ==
  \/ CreateCheckoutSession \/ CreateCreditsSession \/ PaymentsWebhook
  \/ PaymentsSuccess \/ CreditsPurchaseComplete

PaymentSpec == PaymentInit /\ [][PaymentNext]_vars

\* ------------------------------------------------------------------------
\* AuthService.signup over the HybridUserRepository
\* ------------------------------------------------------------------------
MaxSignups == 3
SignupEmails == {<<>>, <<"a","n","n">>, <<"a","n","n","@","x",".","i","o">>, <<"A","n","n","@","x",".","i","o">>, <<"b","o","b","@","x",".","i","o">>}
SignupPasswords == {<<>>, <<"a","b","c">>, <<"s","e","c","r","e","t","1">>}

\* /^[^\s@]+@[^\s@]+\.[^\s@]+$/.test(email): no white space, exactly one '@',
\* something before it, and after it a '.' with something on both sides
emailRegexTest(email) ==
  /\ \A k \in 1..Len(email) : email[k] \notin WhiteSpace
  /\ \E i \in 1..Len(email) :
       /\ email[i] = "@"
       /\ \A k \in 1..Len(email) : email[k] = "@" => k = i
       /\ i > 1
       /\ \E j \in (i + 2)..(Len(email) - 1) : email[j] = "."

\* PostgreSQLUserRepository.createUser through the adapter: the INSERT is
\* rejected when the database cannot be reached and when the email, compared
\* as stored, is already in the table (email TEXT UNIQUE)
pgCreate(rows, connected, email, newId) ==
  IF ~connected \/ \E k \in 1..Len(rows) : rows[k].email = email
  THEN [thrown |-> TRUE, rows |-> rows, user |-> Undefined]
  ELSE LET user == [id |-> newId, email |-> email]
       IN  [thrown |-> FALSE, rows |-> Append(rows, user), user |-> Some(user)]

\* InMemoryUserRepository.findByEmail
memoryFindByEmail(users, index, email) ==
  LET key == toLowerCase(email)
      hits == {k \in 1..Len(index) : index[k].email = key}
  IN  IF hits = {} THEN Undefined
      ELSE LET userId == index[CHOOSE k \in hits : TRUE].id
               found == {k \in 1..Len(users) : users[k].id = userId}
           IN  IF found = {} THEN Undefined
               ELSE Some(users[CHOOSE k \in found : TRUE])

\* InMemoryUserRepository.create
memoryCreate(users, index, email, newId) ==
  IF IsDefined(memoryFindByEmail(users, index, email))
  THEN [thrown |-> TRUE, users |-> users, index |-> index, user |-> Undefined]
  ELSE LET user == [id |-> newId, email |-> toLowerCase(email)]
       IN  [thrown |-> FALSE, users |-> Append(users, user),
            index |-> Append(index, [email |-> user.email, id |-> user.id]),
            user |-> Some(user)]

\* HybridUserRepository.create: PostgreSQL first, and on any error of it the
\* in-memory repository
hybridCreate(rows, users, index, connected, email, newId) ==
  LET pg == pgCreate(rows, connected, email, newId)
  IN  IF ~pg.thrown
      THEN [thrown |-> FALSE, rows |-> pg.rows, users |-> users, index |-> index,
            user |-> pg.user, store |-> "postgres"]
      ELSE LET mem == memoryCreate(users, index, email, newId)
           IN  [thrown |-> mem.thrown, rows |-> rows, users |-> mem.users,
                index |-> mem.index, user |-> mem.user, store |-> "memory"]

\* the ids uuidv4() and uuid_generate_v4() hand out: fresh ones
NextUserId == Len(pgUsers) + Len(memoryUsers) + 1

\* AuthService.signup(email, password)
Signup ==
  /\ Len(signups) < MaxSignups
  /\ \E email \in SignupEmails, password \in SignupPasswords :
       IF \/ email = <<>> \/ password = <<>>
          \/ Len(password) < 6
          \/ ~emailRegexTest(email)
       THEN /\ signups' = Append(signups,
                  [email |-> email, outcome |-> "thrown", user |-> Undefined,
                   store |-> "none", connected |-> dbConnected])
            /\ UNCHANGED <<pgUsers, memoryUsers, emailIndex>>
       ELSE LET made == hybridCreate(pgUsers, memoryUsers, emailIndex, dbConnected,
                                     email, NextUserId)
            IN  /\ pgUsers' = made.rows
                /\ memoryUsers' = made.users
                /\ emailIndex' = made.index
                /\ signups' = Append(signups,
                      [email |-> email,
                       outcome |-> IF made.thrown THEN "thrown" ELSE "tokens",
                       user |-> made.user, store |-> made.store,
                       connected |-> dbConnected])
  /\ UNCHANGED <<dbConnected, coreVars, erpVars, moneyVars, paymentVars>>

\* the database becomes unreachable, or reachable again
DatabaseAvailabilityChanges ==
  /\ dbConnected' = ~dbConnected
  /\ UNCHANGED <<pgUsers, memoryUsers, emailIndex, signups, coreVars, erpVars,
                 moneyVars, paymentVars>>

UserInit ==
  /\ pgUsers = <<>>
  /\ memoryUsers = <<>>
  /\ emailIndex = <<>>
  /\ dbConnected \in BOOLEAN
  /\ signups = <<>>
  /\ NoErpSync /\ NoMoney /\ NoPayment /\ CoreIdle
UserNext == Signup \/ DatabaseAvailabilityChanges
UserSpec == UserInit /\ [][UserNext]_vars

\* ------------------------------------------------------------------------
\* Vocabulary of the properties: the call recorded in the state
\* ------------------------------------------------------------------------
LineIdx == 1..Len(mappedLines)
CatalogIdx == 1..Len(skuCatalog)
Result(i) == mappedLines[i].mapping_result
Cands(i) == candidateLists[i]
LineSize(i) == mappedLines[i].normalized.size_mm
LineMaterial(i) == mappedLines[i].normalized.material
LineGauge(i) == mappedLines[i].normalized.gauge
\* a field is carried (set, present) when the code finds it truthy: a number
\* that is neither undefined nor 0, a string that is neither undefined nor ''
CarriesSize(o) == o # Undefined /\ o[1] # Zero
CarriesText(o) == o # Undefined /\ o[1] # <<>>
SizeGap(i, sku) == RAbs(RSub(LineSize(i)[1], sku.sizeOdMm[1]))
SameText(a, b) == toUpperCase(a) = toUpperCase(b)
InUnit(x) == RLe(Zero, x) /\ RLe(x, One)
TopScore(i) == Cands(i)[1].score
HasSecond(i) == Len(Cands(i)) >= 2
Margin(i) == RSub(Cands(i)[1].score, Cands(i)[2].score)

\* C1: in every mapping result selected_sku is set exactly when the status is
\* auto_mapped; needs_review and failed results carry no selected_sku.
C1_SelectedIffAutoMapped ==
  \A i \in LineIdx :
     /\ Result(i).status \in {"auto_mapped", "needs_review", "failed"}
     /\ (Result(i).selected_sku # Undefined) <=> (Result(i).status = "auto_mapped")
C1_Witness ==
  \E i \in LineIdx :
     /\ Result(i).status = "auto_mapped"
     /\ Result(i).selected_sku = Some(Cands(i)[1].sku.skuCode)

\* C2: for a non-empty candidate list the status is needs_review exactly when
\* top.score < autoMapThreshold or a second candidate is present and
\* top.score - second.score < confidenceDelta; otherwise it is auto_mapped.
C2_NeedsReviewRule ==
  \A i \in LineIdx :
     Cands(i) # <<>> =>
       LET flagged == \/ RLt(TopScore(i), config.auto_map_threshold)
                      \/ (HasSecond(i) /\ RLt(Margin(i), config.confidence_delta))
       IN  Result(i).status = IF flagged THEN "needs_review" ELSE "auto_mapped"
\* a top score at or above the threshold, flagged because the second is close
C2_Witness ==
  \E i \in LineIdx :
     /\ HasSecond(i)
     /\ RLe(config.auto_map_threshold, TopScore(i))
     /\ RLt(Margin(i), config.confidence_delta)
     /\ Result(i).status = "needs_review"

\* material compatibility as the code decides it: the line material equals the
\* SKU's material or its alternate material (letter case apart), or the SKU is
\* a Corrugated Flexible Pipe, the line asks for FRPP or FR and the SKU's
\* material is PP or its alternate material is FRPP
CompatibleWithAlternate(material, sku) ==
  \/ SameText(material, sku.material)
  \/ (sku.altMaterial # Undefined /\ SameText(material, sku.altMaterial[1]))
  \/ /\ sku.productFamily = "Corrugated Flexible Pipe"
     /\ toUpperCase(material) \in {<<"F","R","P","P">>, <<"F","R">>}
     /\ \/ toUpperCase(sku.material) = <<"P","P">>
        \/ (sku.altMaterial # Undefined /\ toUpperCase(sku.altMaterial[1]) = <<"F","R","P","P">>)

\* the three hard constraints of line i on a SKU
FamilyOk(i, sku) ==
  LET family == getProductFamily(mappedLines[i].input_text)
  IN  family # "Unknown" => sku.productFamily = family
SizeOk(i, sku) ==
  CarriesSize(LineSize(i)) /\ CarriesSize(sku.sizeOdMm) =>
    RLe(SizeGap(i, sku),
        IF CarriesSize(sku.toleranceMm) THEN sku.toleranceMm[1]
        ELSE config.size_tolerance_mm)
MaterialOk(i, sku) ==
  CarriesText(LineMaterial(i)) /\ sku.material # <<>> =>
    CompatibleWithAlternate(LineMaterial(i)[1], sku)
Admissible(i, sku) == FamilyOk(i, sku) /\ SizeOk(i, sku) /\ MaterialOk(i, sku)

C4_AsStated ==
  \A i \in LineIdx : \A c \in CatalogIdx :
     CarriesText(LineMaterial(i)) /\ skuCatalog[c].material # <<>> =>
       (isMaterialCompatible(LineMaterial(i)[1], skuCatalog[c])
          <=> \/ SameText(LineMaterial(i)[1], skuCatalog[c].material)
              \/ /\ skuCatalog[c].productFamily = "Corrugated Flexible Pipe"
                 /\ toUpperCase(LineMaterial(i)[1]) \in {<<"F","R","P","P">>, <<"F","R">>}
                 /\ \/ toUpperCase(skuCatalog[c].material) = <<"P","P">>
                    \/ /\ skuCatalog[c].altMaterial # Undefined
                       /\ toUpperCase(skuCatalog[c].altMaterial[1]) = <<"F","R","P","P">>)

\* C4: compatibility holds exactly when the line material equals the SKU's
\* material or its alternate material, or the SKU is a Corrugated Flexible
\* Pipe, the line asks for FRPP or FR and the SKU's material is PP or its
\* alternate material is FRPP; a SKU is a candidate only if it is compatible.
C4_CompatibleIffMatchOrAlternateOrHierarchy ==
  \A i \in LineIdx : \A c \in CatalogIdx :
     CarriesText(LineMaterial(i)) /\ skuCatalog[c].material # <<>> =>
       /\ isMaterialCompatible(LineMaterial(i)[1], skuCatalog[c])
            <=> CompatibleWithAlternate(LineMaterial(i)[1], skuCatalog[c])
       /\ (\E k \in 1..Len(Cands(i)) : Cands(i)[k].sku = skuCatalog[c])
            => CompatibleWithAlternate(LineMaterial(i)[1], skuCatalog[c])
\* a PP line whose candidate has another material and PP as its alternate
C4_Witness ==
  \E i \in LineIdx : \E k \in 1..Len(Cands(i)) :
     /\ LineMaterial(i) = Some(<<"P","P">>)
     /\ toUpperCase(Cands(i)[k].sku.material) # <<"P","P">>
     /\ Cands(i)[k].sku.altMaterial = Some(<<"P","P">>)

CatalogPos(sku) == CHOOSE c \in CatalogIdx : skuCatalog[c] = sku

\* C5: the candidate list is sorted by non-increasing score, and candidates
\* of equal score keep the order of their SKUs in the catalog.
C5_SortedAndStable ==
  \A i \in LineIdx :
     \A a, b \in 1..Len(Cands(i)) :
        a < b =>
          /\ RLe(Cands(i)[b].score, Cands(i)[a].score)
          /\ Cands(i)[a].score = Cands(i)[b].score
               => CatalogPos(Cands(i)[a].sku) < CatalogPos(Cands(i)[b].sku)
C5_Witness ==
  \E i \in LineIdx :
     /\ Len(Cands(i)) >= 2
     /\ Cands(i)[1].score = Cands(i)[2].score
     /\ Cands(i)[1].sku # Cands(i)[2].sku

WeightedSum(c) ==
  RAdd(RAdd(RAdd(RMul(c.breakdown.fuzzy_score, config.fuzzy_weight),
                 RMul(c.breakdown.size_score, config.size_weight)),
            RMul(c.breakdown.material_score, config.material_weight)),
       RMul(c.breakdown.alias_score, config.alias_weight))

\* C6: for every scored candidate the four sub-scores lie in [0,1] and the
\* total is the smaller of 1 and the weighted sum of the sub-scores, so it
\* lies in [0,1] as well.
C6_ScoresInUnitInterval ==
  \A i \in LineIdx :
     /\ \A k \in 1..Len(scoredLists[i]) :
           LET cand == scoredLists[i][k]
           IN  /\ InUnit(cand.breakdown.fuzzy_score)
               /\ InUnit(cand.breakdown.size_score)
               /\ InUnit(cand.breakdown.material_score)
               /\ InUnit(cand.breakdown.alias_score)
               /\ cand.score = (IF RLt(One, WeightedSum(cand)) THEN One
                                ELSE WeightedSum(cand))
               /\ InUnit(cand.score)
     /\ \A k \in 1..Len(Cands(i)) :
           \E j \in 1..Len(scoredLists[i]) : Cands(i)[k] = scoredLists[i][j]
\* a candidate whose weighted sum exceeds 1
C6_Witness ==
  \E i \in LineIdx : \E k \in 1..Len(Cands(i)) :
     /\ RLt(One, WeightedSum(Cands(i)[k]))
     /\ Cands(i)[k].score = One

\* the tiers of the size sub-score on the gap d and the configured tolerance t
SizeTier(d, t) ==
  IF RLe(d, t) THEN One
  ELSE IF RLe(d, RMul(Rat(2, 1), t)) THEN Rat(7, 10)
  ELSE IF RLe(d, RMul(Rat(4, 1), t)) THEN Rat(3, 10)
  ELSE Zero

\* C7: with d = |lineSize - skuSize| and t the configured size tolerance, the
\* size sub-score is 1.0 if d <= t, 0.7 if t < d <= 2t, 0.3 if 2t < d <= 4t
\* and 0 otherwise; it is 0 when the line or the SKU carries no size.
C7_SizeScoreTiers ==
  \A i \in LineIdx : \A c \in CatalogIdx :
     LET expected == IF CarriesSize(LineSize(i)) /\ CarriesSize(skuCatalog[c].sizeOdMm)
                     THEN SizeTier(SizeGap(i, skuCatalog[c]), config.size_tolerance_mm)
                     ELSE Zero
     IN  /\ calculateSizeScore(config, mappedLines[i], skuCatalog[c]) = expected
         /\ \A k \in 1..Len(Cands(i)) :
               Cands(i)[k].sku = skuCatalog[c]
                 => Cands(i)[k].breakdown.size_score = expected
\* t = 2mm and a candidate at d = 3mm scored 0.7
C7_Witness ==
  \E i \in LineIdx : \E k \in 1..Len(Cands(i)) :
     /\ config.size_tolerance_mm = Rat(2, 1)
     /\ CarriesSize(LineSize(i)) /\ CarriesSize(Cands(i)[k].sku.sizeOdMm)
     /\ SizeGap(i, Cands(i)[k].sku) = Rat(3, 1)
     /\ Cands(i)[k].breakdown.size_score = Rat(7, 10)

MaterialsMatch(i, sku) ==
  /\ CarriesText(LineMaterial(i)) /\ sku.material # <<>>
  /\ toLowerCase(LineMaterial(i)[1]) = toLowerCase(sku.material)
\* the rules of the material sub-score that hold of every family
MaterialScoreCommon(i, sku, score) ==
  /\ (~ CarriesText(LineMaterial(i)) /\ sku.material = <<>>) => score = Rat(5, 10)
  /\ (CarriesText(LineMaterial(i)) # (sku.material # <<>>)) => score = Rat(2, 10)
  /\ (MaterialsMatch(i, sku) /\ sku.productFamily # "Rigid PVC Conduit")
       => score = One

\* C8 as stated: for a Rigid PVC Conduit SKU whose material equals the line's,
\* the material sub-score is 1.0 only when the two gauges are equal and 0.7
\* when they differ.
C8_AsStated ==
  \A i \in LineIdx : \A c \in CatalogIdx :
     LET sku == skuCatalog[c]
         score == calculateMaterialScore(mappedLines[i], sku)
     IN  /\ MaterialScoreCommon(i, sku, score)
         /\ (MaterialsMatch(i, sku) /\ sku.productFamily = "Rigid PVC Conduit")
              => /\ score = One => LineGauge(i) = sku.gauge
                 /\ LineGauge(i) # sku.gauge => score = Rat(7, 10)

\* C8: for a Rigid PVC Conduit SKU whose material equals the line's, the
\* material sub-score is 0.7 when the line and the SKU both carry a gauge and
\* the gauges differ, and 1.0 otherwise; for all families both materials
\* unset gives 0.5, exactly one unset 0.2, a match outside the gauge rule 1.0.
C8_GaugeRuleWhenBothGauges ==
  \A i \in LineIdx : \A c \in CatalogIdx :
     LET sku == skuCatalog[c]
         score == calculateMaterialScore(mappedLines[i], sku)
     IN  /\ MaterialScoreCommon(i, sku, score)
         /\ (MaterialsMatch(i, sku) /\ sku.productFamily = "Rigid PVC Conduit")
              => score = IF /\ CarriesText(LineGauge(i)) /\ CarriesText(sku.gauge)
                            /\ LineGauge(i) # sku.gauge
                         THEN Rat(7, 10) ELSE One
         /\ \A k \in 1..Len(Cands(i)) :
               Cands(i)[k].sku = sku => Cands(i)[k].breakdown.material_score = score
\* a conduit candidate of the line's material and another gauge, scored 0.7
C8_Witness ==
  \E i \in LineIdx : \E k \in 1..Len(Cands(i)) :
     /\ Cands(i)[k].sku.productFamily = "Rigid PVC Conduit"
     /\ MaterialsMatch(i, Cands(i)[k].sku)
     /\ CarriesText(LineGauge(i)) /\ CarriesText(Cands(i)[k].sku.gauge)
     /\ LineGauge(i) # Cands(i)[k].sku.gauge
     /\ Cands(i)[k].breakdown.material_score = Rat(7, 10)

\* C9: for a non-empty candidate list the confidence is high iff top.score >=
\* autoMapThreshold and the second is absent or top.score - second.score >=
\* confidenceDelta; medium iff that fails and top.score >= 0.6; low otherwise.
C9_ConfidenceRule ==
  \A i \in LineIdx :
     Cands(i) # <<>> =>
       LET high == /\ RLe(config.auto_map_threshold, TopScore(i))
                   /\ (~ HasSecond(i) \/ RLe(config.confidence_delta, Margin(i)))
       IN  Result(i).explanation.confidence =
             IF high THEN "high"
             ELSE IF RLe(Rat(6, 10), TopScore(i)) THEN "medium"
             ELSE "low"
\* a second candidate is present and far enough behind
C9_Witness ==
  \E i \in LineIdx :
     /\ HasSecond(i)
     /\ RLe(config.auto_map_threshold, TopScore(i))
     /\ RLe(config.confidence_delta, Margin(i))
     /\ Result(i).explanation.confidence = "high"

\* C10: mapLineItems returns one result per line, and a line without
\* candidates gets status failed, an empty candidate list and no selected_sku.
C10_NoCandidatesFailed ==
  /\ pc = "mapped" => Len(mappedLines) = Len(parsedLines)
  /\ \A i \in LineIdx :
        (skuCatalog = <<>> => Cands(i) = <<>>)
        /\ (Cands(i) = <<>> =>
              /\ Result(i).status = "failed"
              /\ Result(i).candidates = <<>>
              /\ Result(i).selected_sku = Undefined)
\* a line mapped against the empty catalog
C10_Witness ==
  /\ pc = "mapped"
  /\ skuCatalog = <<>>
  /\ \E i \in LineIdx : Result(i).status = "failed"

\* the review rule of decideMappingResult on the candidate list of line i
ReviewRule(i) ==
  \/ RLt(TopScore(i), config.auto_map_threshold)
  \/ (HasSecond(i) /\ RLt(Margin(i), config.confidence_delta))

\* C11: for a result with candidates the needs_review flag of the explanation
\* is true exactly when top.score < autoMapThreshold or a second candidate is
\* present and top.score - second.score < confidenceDelta, and so it is true
\* of every result whose status is needs_review.
C11_ExplanationFlagFollowsRule ==
  \A i \in LineIdx :
     /\ Cands(i) # <<>> => (Result(i).explanation.needs_review <=> ReviewRule(i))
     /\ Result(i).status = "needs_review" => Result(i).explanation.needs_review
\* a result sent to review by the margin alone
C11_MarginCase ==
  \E i \in LineIdx :
     /\ HasSecond(i)
     /\ RLe(config.auto_map_threshold, TopScore(i))
     /\ RLt(Margin(i), config.confidence_delta)
     /\ Result(i).status = "needs_review"
     /\ ~ Result(i).explanation.needs_review

\* reasons put into one string, "; " between two of them
RECURSIVE Concatenated(_)
Concatenated(reasons) ==
  IF reasons = <<>> THEN <<>>
  ELSE IF Tail(reasons) = <<>> THEN Head(reasons)
       ELSE Head(reasons) \o <<";"," ">> \o Concatenated(Tail(reasons))
ReturnedCount(i) == IF Len(Cands(i)) < 3 THEN Len(Cands(i)) ELSE 3

\* C12: a result with candidates, auto_mapped or needs_review, returns the
\* first min(3, n) entries of the sorted candidate list in their order, each
\* as the SKU code, the total score and the reasons joined into one string.
C12_TopThreeReturned ==
  \A i \in LineIdx :
     Cands(i) # <<>> =>
       /\ Result(i).status \in {"auto_mapped", "needs_review"}
       /\ Len(Result(i).candidates) = ReturnedCount(i)
       /\ \A k \in 1..ReturnedCount(i) :
             /\ Result(i).candidates[k].sku_code = Cands(i)[k].sku.skuCode
             /\ Result(i).candidates[k].score = Cands(i)[k].score
             /\ Result(i).candidates[k].reason = Concatenated(Cands(i)[k].reasons)
\* more than three candidates, cut to three, the first of them selected
C12_Witness ==
  \E i \in LineIdx :
     /\ Len(Cands(i)) > 3
     /\ Len(Result(i).candidates) = 3
     /\ Result(i).status = "auto_mapped"
     /\ \E k \in 1..3 : Len(Cands(i)[k].reasons) >= 2

C14_RunLeavesInputsAndEngine ==
  [][/\ (pc = "constructed" /\ pc' = "mapped")
          => config' = config /\ aliases' = aliases
     /\ (pc = "mapped" /\ pc' = "remapped")
          => /\ config' = config /\ aliases' = aliases
             /\ parsedLines' = parsedLines /\ skuCatalog' = skuCatalog
             /\ \E i \in 1..Len(parsedLines) :
                   laterLines'[Len(laterLines')] = parsedLines[i]
     /\ (pc # "idle" /\ pc' = pc)
          => config' = config /\ aliases' = aliases]_vars
\* after a call and a reload that changed the values of the configuration
\* file, the mapper still holds the configuration it was built with, and the
\* caller's line carries no normalized size although the returned line does
C14_Witness ==
  /\ pc = "mapped"
  /\ \A override \in ConfigOverrides : config # mergeConfig(appConfig, override)
  /\ \E i \in LineIdx :
        /\ parsedLines[i].normalized # mappedLines[i].normalized
        /\ parsedLines[i].normalized.size_mm = Undefined

\* the built-in seed table: four SKU codes, every alias with boost 0.3
SeedAliases ==
  [code \in {"NFC25", "NFC32", "PVC25M", "GFB3OCT"} |->
     LET names == CASE code = "NFC25" -> << <<"2","5","m","m">>, <<"2","5">>, <<"c","o","r","r","u","g","a","t","e","d">>, <<"f","l","e","x","i","b","l","e">> >>
                    [] code = "NFC32" -> << <<"3","2","m","m">>, <<"3","2">>, <<"c","o","r","r","u","g","a","t","e","d">>, <<"f","l","e","x","i","b","l","e">> >>
                    [] code = "PVC25M" -> << <<"2","5","m","m">>, <<"2","5">>, <<"p","v","c">>, <<"c","o","n","d","u","i","t">>, <<"m","e","d","i","u","m">> >>
                    [] code = "GFB3OCT" -> << <<"f","a","n"," ","b","o","x">>, <<"3","\"">>, <<"3"," ","i","n","c","h">>, <<"o","c","t","a","g","o","n","a","l">> >>
     IN  [j \in 1..Len(names) |-> [alias |-> names[j], boost |-> Rat(3, 10)]]]
MapperExists == pc # "idle"

\* C15: when getSkuAliases throws while the mapper is constructed, the mapper
\* exists, its alias index is the built-in seed table (NFC25, NFC32, PVC25M,
\* GFB3OCT, every alias with boost 0.3), and its mapLineItems calls return a
\* result for every line.
C15_SeedTableWhenSourceFails ==
  (MapperExists /\ aliasSource.throws) =>
     /\ aliases = SeedAliases
     /\ pc \in {"mapped", "remapped", "quoted"} => Len(mappedLines) = Len(parsedLines)
     /\ pc = "remapped" => Len(laterMapped) = Len(laterLines)
\* a line mapped with the help of a seed alias after the source failed
C15_Witness ==
  /\ pc = "mapped"
  /\ aliasSource.throws
  /\ \E i \in LineIdx : \E k \in 1..Len(Cands(i)) :
        /\ Cands(i)[k].sku.skuCode \in DOMAIN SeedAliases
        /\ RLt(Zero, Cands(i)[k].breakdown.alias_score)

\* C16 as stated: when the alias source is read without error and yields no
\* alias entry, the alias index after construction is not empty and holds the
\* seed entries.
C16_SeedTableWhenSourceEmpty ==
  (MapperExists /\ ~ aliasSource.throws /\ aliasSource.rows = <<>>) =>
     /\ aliases # <<>>
     /\ \A code \in DOMAIN SeedAliases :
           code \in DOMAIN aliases /\ aliases[code] = SeedAliases[code]
\* the source was read, it held no entry, and the alias index is empty
C16_EmptyIndex ==
  /\ pc = "mapped"
  /\ ~ aliasSource.throws
  /\ aliasSource.rows = <<>>
  /\ aliases = <<>>
  /\ \E i \in LineIdx : Cands(i) # <<>>

\* the canonical gauge of a token, letter case and outer blanks apart
CanonicalGauge(token) ==
  LET word == toLowerCase(trim(token))
  IN  IF word \in {<<"l","i","g","h","t">>, <<"l">>} THEN Some(<<"L">>)
      ELSE IF word \in {<<"m","e","d","i","u","m">>, <<"m","e","d">>, <<"m">>} THEN Some(<<"M">>)
      ELSE IF word \in {<<"h","e","a","v","y">>, <<"h">>} THEN Some(<<"H">>)
      ELSE Undefined

\* C17: the normalized gauge of a mapped line is L for the tokens light and l,
\* M for medium, med and m, H for heavy and h, and unset for any other token
\* or no token; so it is always one of L, M, H or unset.
C17_GaugeCanonicalOrUnset ==
  \A i \in LineIdx :
     LET token == parsedLines[i].raw_tokens.gauge_token
     IN  /\ LineGauge(i) = IF CarriesText(token) THEN CanonicalGauge(token[1])
                           ELSE Undefined
         /\ LineGauge(i) \in {Undefined, Some(<<"L">>), Some(<<"M">>), Some(<<"H">>)}
\* a token outside the table is kept, in upper case, as the normalized gauge
C17_OtherTokenKept ==
  \E i \in LineIdx :
     /\ parsedLines[i].raw_tokens.gauge_token = Some(<<"x","l">>)
     /\ LineGauge(i) = Some(<<"X","L">>)

\* the SKU code line i resolves to: its selected SKU when it is auto_mapped,
\* else its top candidate when it has one, else none
ResolvedCode(i) ==
  IF Result(i).status = "auto_mapped" THEN Result(i).selected_sku
  ELSE IF Result(i).candidates # <<>> THEN Some(Result(i).candidates[1].sku_code)
  ELSE Undefined
PricedLines == {i \in LineIdx : ResolvedCode(i) # Undefined}
CatalogRate(code) ==
  (CHOOSE sku \in {skuCatalog[c] : c \in CatalogIdx} : sku.skuCode = code).rateInr
\* the lines that resolve to the SKU, unit and rate of a quote line
LinesOf(item) ==
  {i \in PricedLines : /\ ResolvedCode(i) = Some(item.sku_code)
                       /\ mappedLines[i].uom = item.uom
                       /\ CatalogRate(item.sku_code) = item.unit_rate}
RECURSIVE QtyOf(_)
QtyOf(S) ==
  IF S = {} THEN 0
  ELSE LET i == CHOOSE x \in S : TRUE
       IN  mappedLines[i].qty + QtyOf(S \ {i})

\* C18: in a created quote every line that resolves to a SKU (selected_sku
\* when auto_mapped, else the top candidate) is priced in exactly one quote
\* line, that of its SKU, unit and catalog rate; a line with no candidate is
\* in no quote line; every quote line stands for at least one such line, its
\* quantity is the sum of their quantities and its total is quantity times
\* unit rate.
C18_QuoteLinesMergeResolvedLines ==
  (pc = "quoted" /\ ~ quote.thrown) =>
     LET items == quote.line_items
     IN  /\ \A i \in PricedLines :
               \E n \in 1..Len(items) :
                  /\ i \in LinesOf(items[n])
                  /\ \A m \in 1..Len(items) : i \in LinesOf(items[m]) => m = n
         /\ \A n \in 1..Len(items) :
               /\ LinesOf(items[n]) # {}
               /\ items[n].qty = QtyOf(LinesOf(items[n]))
               /\ items[n].line_total = RMul(Rat(items[n].qty, 1), items[n].unit_rate)
\* a quote of four lines: two merged into one quote line, one needs_review
\* line priced against its top candidate, one in another unit, one dropped
C18_Witness ==
  /\ pc = "quoted"
  /\ ~ quote.thrown
  /\ Len(mappedLines) = 4
  /\ \E i \in LineIdx : Result(i).candidates = <<>>
  /\ \E i \in PricedLines : Result(i).status = "needs_review"
  /\ \E n, m \in 1..Len(quote.line_items) :
        /\ quote.line_items[n].qty = 13
        /\ quote.line_items[m].qty = 5
        /\ quote.line_items[m].sku_code = quote.line_items[n].sku_code
        /\ quote.line_items[m].uom = "PCS"

\* the credits taken from a buyer by the calls that used one idempotency key
TakenFor(buyerId, idempotencyKey) ==
  Cardinality({c \in Charges : /\ charge[c].buyerId = buyerId
                               /\ charge[c].idempotencyKey = idempotencyKey
                               /\ charge[c].took = 1})

\* C19 as stated: whatever the order and the overlap of the chargeIfNeeded
\* calls that use one idempotency key, they take at most one credit from the
\* buyer in total.
C19_AtMostOneCreditPerKey ==
  \A buyerId \in Buyers, idempotencyKey \in IdempotencyKeys :
     TakenFor(buyerId, idempotencyKey) <= 1
\* two calls with one key have both returned, each after taking a credit
C19_ChargedTwice ==
  \E c, d \in Charges :
     /\ c # d
     /\ charge[c].idempotencyKey = charge[d].idempotencyKey
     /\ charge[c].buyerId = charge[d].buyerId
     /\ charge[c].at = "returned" /\ charge[d].at = "returned"
     /\ charge[c].took = 1 /\ charge[d].took = 1

\* C20 as stated: a parseRFQ call that starts after a call with the same
\* idempotency key has returned run r returns r too and creates no run,
\* whatever the database answered at either call.
C20_LaterCallReturnsSameRun ==
  \A c \in Parses :
     parse[c].at = "returned" =>
        \A r \in parse[c].earlier : parse[c].run_id = r /\ ~ parse[c].created
\* a run stored in the database only, then a call with the same key while the
\* database is away: it created and returned a second run, kept in memory
C20_SecondRunForKey ==
  \E c, d \in Parses :
     /\ parse[c].at = "returned" /\ parse[d].at = "returned"
     /\ parse[c].idempotencyKey = parse[d].idempotencyKey
     /\ parse[c].run_id \in parse[d].earlier
     /\ parse[d].created
     /\ parse[d].run_id # parse[c].run_id
     /\ \E n \in 1..Len(rfqs) : rfqs[n].run_id = parse[c].run_id
     /\ parse[d].run_id \in runIdCache
     /\ inMemoryCache[parse[d].idempotencyKey] = parse[d].run_id

\* C24: in every mapping result with at least one candidate the status is
\* auto_mapped exactly when the explanation's confidence is high; a result of
\* confidence medium or low has status needs_review.
C24_AutoMappedIffHighConfidence ==
  \A i \in LineIdx :
     Cands(i) # <<>> =>
        /\ (Result(i).status = "auto_mapped") <=> (Result(i).explanation.confidence = "high")
        /\ Result(i).explanation.confidence \in {"medium", "low"}
              => Result(i).status = "needs_review"
\* a top score at or above the threshold with a close second: medium
\* confidence and needs_review
C24_Witness ==
  \E i \in LineIdx :
     /\ HasSecond(i)
     /\ RLe(config.auto_map_threshold, TopScore(i))
     /\ RLt(Margin(i), config.confidence_delta)
     /\ Result(i).explanation.confidence = "medium"
     /\ Result(i).status = "needs_review"

C26_AdmissibleSkusAreCandidates ==
  \A i \in LineIdx :
     /\ \A c \in CatalogIdx :
           Admissible(i, skuCatalog[c]) =>
              \E k \in 1..Len(Cands(i)) : Cands(i)[k].sku = skuCatalog[c]
     /\ Result(i).status = "failed" =>
           \A c \in CatalogIdx : ~ Admissible(i, skuCatalog[c])
\* the only SKU of the catalog is admissible and scored, its score is not
\* above 0.1, and the line's result is failed
C26_AdmissibleSkuDropped ==
  \E i \in LineIdx :
     /\ Len(skuCatalog) = 1
     /\ Admissible(i, skuCatalog[1])
     /\ Len(scoredLists[i]) = 1
     /\ RLe(scoredLists[i][1].score, Rat(1, 10))
     /\ Cands(i) = <<>>
     /\ Result(i).status = "failed"

\* the requests POST /erp/quotes accepted: authenticated, with key and quote
Accepted(n) == erpResponses[n].status \in {200, 201}

\* C21 as stated: of the authenticated requests that carry one idempotency
\* key, the first is answered 201 and every later one 200, all with the same
\* erp_order_id.
C21_AsStated ==
  \A n \in 1..Len(erpResponses) :
     (erpResponses[n].status # 401 /\ erpResponses[n].idempotency_key # "") =>
        LET earlier == {m \in 1..(n - 1) :
                          /\ erpResponses[m].status # 401
                          /\ erpResponses[m].idempotency_key
                               = erpResponses[n].idempotency_key}
        IN  /\ erpResponses[n].status = IF earlier = {} THEN 201 ELSE 200
            /\ \A m \in earlier :
                  erpResponses[m].erp_order_id = erpResponses[n].erp_order_id

\* C21: of the accepted POST /erp/quotes requests (authenticated, carrying a
\* key and a quote) that carry one idempotency key, all receive the same
\* erp_order_id, the first is answered 201 and changes the store, and every
\* later one is answered 200 and leaves the store as it was.
C21_ErpSyncIdempotent ==
  \A n \in 1..Len(erpResponses) :
     Accepted(n) =>
        LET first == \A m \in 1..(n - 1) :
                        Accepted(m) =>
                          erpResponses[m].idempotency_key # erpResponses[n].idempotency_key
        IN  /\ erpResponses[n].status = IF first THEN 201 ELSE 200
            /\ erpResponses[n].stored = first
            /\ \A m \in 1..(n - 1) :
                  (Accepted(m) /\ erpResponses[m].idempotency_key
                                   = erpResponses[n].idempotency_key)
                    => erpResponses[m].erp_order_id = erpResponses[n].erp_order_id
\* a key answered 201, then another key, then the first key again answered
\* 200 with the first order id although another id was drawn
C21_Witness ==
  \E n, m \in 1..Len(erpResponses) :
     /\ n + 1 < m
     /\ erpResponses[n].status = 201 /\ erpResponses[m].status = 200
     /\ erpResponses[n].idempotency_key = erpResponses[m].idempotency_key
     /\ erpResponses[n + 1].status = 201
     /\ erpResponses[n + 1].erp_order_id # erpResponses[n].erp_order_id
     /\ erpResponses[m].erp_order_id = erpResponses[n].erp_order_id

\* the Money objects a caller can hold: the two kept and the one just returned
MoneyHeld ==
  {money[a][1] : a \in {b \in 1..2 : money[b] # <<>>}}
  \cup (IF /\ moneyOutcome.op \in {"new", "add", "subtract", "multiply", "divide",
                                     "percentage"}
            /\ ~ moneyOutcome.result.thrown
         THEN {moneyOutcome.result.value} ELSE {})
ThrewMessage(message) ==
  moneyOutcome.result.thrown /\ moneyOutcome.result.message = message
\* the exact result of the arithmetic method just called
ExactResult ==
  CASE moneyOutcome.op = "add" -> RAdd(moneyOutcome.this.amount, moneyOutcome.other.amount)
    [] moneyOutcome.op = "subtract" ->
         RSub(moneyOutcome.this.amount, moneyOutcome.other.amount)
    [] moneyOutcome.op = "multiply" -> RMul(moneyOutcome.this.amount, moneyOutcome.factor)
    [] moneyOutcome.op = "divide" ->
         [n |-> moneyOutcome.this.amount.n * moneyOutcome.factor.d
                  * (IF moneyOutcome.factor.n < 0 THEN -1 ELSE 1),
          d |-> moneyOutcome.this.amount.d * Abs(moneyOutcome.factor.n)]

\* C22: every Money has an amount that is not negative; the constructor
\* throws 'Amount cannot be negative' for a negative amount, and so do
\* subtract, multiply and divide when their exact result is negative; add,
\* subtract, isGreaterThan and isLessThan throw 'Currency mismatch: a vs b' on
\* Money of two currencies; divide(0) throws 'Cannot divide by zero'; after a
\* call, thrown or not, the operands are the objects they were.
C22_MoneyNeverNegative ==
  /\ \A m \in MoneyHeld : RLe(Zero, m.amount)
  /\ moneyOutcome.op = "new" =>
        (RLt(moneyOutcome.amount, Zero) <=> ThrewMessage("Amount cannot be negative"))
        /\ (RLe(Zero, moneyOutcome.amount) <=> ~ moneyOutcome.result.thrown)
  /\ moneyOutcome.op \in {"add", "subtract", "isGreaterThan", "isLessThan"} =>
        /\ moneyOutcome.this.currency # moneyOutcome.other.currency =>
              ThrewMessage("Currency mismatch: " \o moneyOutcome.this.currency
                             \o " vs " \o moneyOutcome.other.currency)
        /\ (moneyOutcome.this.currency = moneyOutcome.other.currency
              /\ moneyOutcome.op \in {"add", "subtract"}) =>
              (RLt(ExactResult, Zero) <=> ThrewMessage("Amount cannot be negative"))
              /\ (RLe(Zero, ExactResult) <=> ~ moneyOutcome.result.thrown)
        /\ (moneyOutcome.this.currency = moneyOutcome.other.currency
              /\ moneyOutcome.op \in {"isGreaterThan", "isLessThan"}) =>
              ~ moneyOutcome.result.thrown
  /\ moneyOutcome.op = "divide" /\ moneyOutcome.factor = Zero =>
        ThrewMessage("Cannot divide by zero")
  /\ (moneyOutcome.op \in {"multiply", "divide"} /\ moneyOutcome.factor # Zero) =>
        (RLt(ExactResult, Zero) <=> ThrewMessage("Amount cannot be negative"))
        /\ (RLe(Zero, ExactResult) <=> ~ moneyOutcome.result.thrown)
  /\ moneyOutcome.op \in {"add", "subtract", "equals", "isGreaterThan", "isLessThan"} =>
        /\ \E a \in 1..2 : money[a] = <<moneyOutcome.this>>
        /\ \E b \in 1..2 : money[b] = <<moneyOutcome.other>>
  /\ moneyOutcome.op \in {"multiply", "divide", "percentage"} =>
        \E a \in 1..2 : money[a] = <<moneyOutcome.this>>
\* 50 INR less 100 INR has thrown, and both objects are still held
C22_Witness ==
  /\ moneyOutcome.op = "subtract"
  /\ moneyOutcome.this = [amount |-> Rat(50, 1), currency |-> "INR"]
  /\ moneyOutcome.other = [amount |-> Rat(100, 1), currency |-> "INR"]
  /\ ThrewMessage("Amount cannot be negative")
  /\ money = <<<<moneyOutcome.this>>, <<moneyOutcome.other>>>>

\* request n marked a session of quote q completed
CompletedFor(n, q) ==
  /\ paymentLog[n].op \in {"webhook", "success", "complete"}
  /\ paymentLog[n].op = "webhook" => paymentLog[n].type = "checkout.session.completed"
  /\ paymentLog[n].answer = ""
  /\ sessions[paymentLog[n].session_id].quote_id = q

\* C23 as stated: once a checkout.session.completed event has been handled
\* for a session of quote q, isQuotePaid(q) is true ever after, and every
\* later create-session request for q with a valid amount and currency is
\* rejected with 'Quote has already been paid' and registers no session.
C23_PaidQuoteStaysPaid ==
  \A n \in 1..Len(paymentLog) :
     CompletedFor(n, "Q-1") =>
        /\ isQuotePaid("Q-1")
        /\ \A m \in (n + 1)..Len(paymentLog) :
              (paymentLog[m].op = "create-session"
                 /\ paymentLog[m].answer \notin {"Invalid quote_id or amount",
                                                 "Only INR currency is supported"})
                => /\ paymentLog[m].answer = "Quote has already been paid"
                   /\ paymentLog[m].session_id = 0
\* the session of a quote was completed, then the expired event of the same
\* session was handled: the quote no longer counts as paid and a new session
\* was registered for it
C23_PaidThenExpired ==
  \E n, m, k \in 1..Len(paymentLog) :
     /\ n < m /\ m < k
     /\ CompletedFor(n, "Q-1")
     /\ paymentLog[m].op = "webhook"
     /\ paymentLog[m].type = "checkout.session.expired"
     /\ paymentLog[m].session_id = paymentLog[n].session_id
     /\ paymentLog[m].answer = ""
     /\ paymentLog[k].op = "create-session"
     /\ paymentLog[k].answer = ""
     /\ paymentLog[k].session_id # 0
     /\ ~ isQuotePaid("Q-1")

\* the credits added for a session by the requests served so far
RECURSIVE GrantedTo(_, _)
GrantedTo(session_id, n) ==
  IF n = 0 THEN 0
  ELSE GrantedTo(session_id, n - 1)
       + (IF paymentLog[n].session_id = session_id THEN paymentLog[n].granted ELSE 0)

\* C28 as stated: whatever webhook deliveries, success redirects and
\* purchase/complete calls refer to a credits session, the credits added for
\* it are at most its credits_to_add, and credits are added only while the
\* session's status is paid.
C28_CreditsGrantedOncePerSession ==
  /\ \A session_id \in DOMAIN sessions :
        GrantedTo(session_id, Len(paymentLog)) <= sessions[session_id].credits_to_add
  /\ \A n \in 1..Len(paymentLog) :
        paymentLog[n].granted > 0 => paymentLog[n].statusAtGrant = "paid"
\* one credits session, never paid through a webhook: the success redirect
\* added its credits while it was pending, and a second redirect added them
\* again; the balance holds both
C28_GrantedTwice ==
  \E n, m \in 1..Len(paymentLog) :
     /\ n < m
     /\ paymentLog[n].op = "success" /\ paymentLog[m].op = "success"
     /\ paymentLog[n].session_id = paymentLog[m].session_id
     /\ paymentLog[n].granted = 5 /\ paymentLog[m].granted = 5
     /\ paymentLog[n].statusAtGrant = "pending"
     /\ \A k \in 1..Len(paymentLog) : paymentLog[k].op # "webhook"
     /\ userCredits["buyer-1"] >= 10

\* C27 as stated: when a POST /api/quotes request ends in an error, because
\* chargeIfNeeded threw or because createQuote threw, its chargeIfNeeded call
\* has taken no credit from the buyer.
C27_NoCreditForFailedQuote ==
  (pc = "rejected" \/ (pc = "quoted" /\ quote.thrown)) =>
     charge[CurrentCharge].took = 0
\* a run whose only line has no candidate: the balance went from 2 to 1 and
\* createQuote threw for want of a quotable line
C27_ChargedWithoutQuote ==
  /\ pc = "quoted"
  /\ quote.thrown
  /\ \A i \in LineIdx : Result(i).status = "failed"
  /\ CurrentCharge = 1
  /\ charge[1].took = 1
  /\ charge[1].at = "returned"
  /\ userCredits["buyer-1"] = 1

\* the users of both stores
AllUsers == {pgUsers[k] : k \in 1..Len(pgUsers)} \cup
            {memoryUsers[k] : k \in 1..Len(memoryUsers)}
\* C29 as stated: no two users of the hybrid store share an email, and no two
\* signups for one email were both answered with tokens.
C29_EmailsUniqueAcrossStores ==
  /\ \A u, v \in AllUsers : u.id # v.id => u.email # v.email
  /\ \A i, j \in 1..Len(signups) :
       (i < j /\ signups[i].outcome = "tokens" /\ signups[j].outcome = "tokens")
          => signups[i].email # signups[j].email
\* with the database reachable throughout, a second signup for ann@x.io is
\* refused by PostgreSQL and then accepted by the in-memory repository
C29_SecondAccountInMemory ==
  /\ Len(signups) = 2
  /\ \A k \in 1..2 : /\ signups[k].email = <<"a","n","n","@","x",".","i","o">>
                       /\ signups[k].outcome = "tokens"
                       /\ signups[k].connected
  /\ signups[1].store = "postgres"
  /\ signups[2].store = "memory"
  /\ Len(pgUsers) = 1 /\ pgUsers[1].email = <<"a","n","n","@","x",".","i","o">>
  /\ Len(memoryUsers) = 1 /\ memoryUsers[1].email = <<"a","n","n","@","x",".","i","o">>

====
